---- MODULE Spec2Model ----
(***************************************************************************)
(* Session-state inference of claude-sessions-monitor (csm).               *)
(*                                                                         *)
(* One project directory with one selected log file is observed.  The      *)
(* environment appends lines to the log, lets the clock advance and starts *)
(* or stops the assistant process; the monitor runs one synchronous pass   *)
(* (Discover, FindGhostProcesses, or determineStatus applied directly) and *)
(* exits.  Times are whole seconds; strings are sequences of characters.   *)
(*                                                                         *)
(* Further specifications take one part each: SpecUsage the context usage  *)
(* estimator, SpecRead the log reader, SpecLogs the choice of the log file *)
(* in a project directory, SpecCodec the path codec, SpecProjects the      *)
(* projects root with several projects, sorting and the ghost-kill path,   *)
(* SpecTask the task text of a Working session, SpecLayout the session     *)
(* table's column widths and cell truncation, SpecView the interactive    *)
(* live view with its keys, ticker and signals, SpecKill the kill-ghosts   *)
(* command with the processes changing between its two discoveries, and    *)
(* SpecWatch the polling loop of the watcher (SpecWatchFair with the       *)
(* fairness of its select).                                                *)
(***************************************************************************)
EXTENDS Integers, Sequences, FiniteSets

VARIABLES
    now,        \* the wall clock, in seconds
    log,        \* the lines of the project's selected .jsonl file, in file order
    mtime,      \* the file's modification time
    pid,        \* runningDirs[projectName]; 0 when the key is absent
    pc,         \* position of the monitor process
    sessions,   \* the []Session of the last discovery pass
    verdict,    \* <<>> or <<r>>: the triple determineStatus returned
    ghosts,     \* the []GhostProcess FindGhostProcesses returned
    ret,        \* <<>> or <<r>>: a direct call of one function and what it returned
    dir,        \* the entries os.ReadDir lists in one project directory
    cwd,        \* the working directory of one assistant process, or of each by pid
    root,       \* the project directories under ~/.claude/projects
    signals,    \* the SIGTERMs KillGhostProcesses sent, in order, with their outcome
    killed,     \* the []GhostProcess KillGhostProcesses returned
    view        \* the interactive live view: its loop, mode, channels and terminal

vars == <<now, log, mtime, pid, pc, sessions, verdict, ghosts,
          ret, dir, cwd, root, signals, killed, view>>

\* what the single-project monitor of the first specification never touches
others == <<ret, dir, cwd, root, signals, killed, view>>

---------------------------------------------------------------------------
(* Bounds of the model.                                                    *)

MaxLog == 3

---------------------------------------------------------------------------
(* Program constants.                                                      *)

ZeroTime == 0

Second == 1

Minute == 60 * Second

Hour == 60 * Minute

DefaultContextWindow == 200000

ReadCount == 100

StaleAfter == 5 * Minute

WorkingWindow == 30 * Second

GhostAge == Hour

StatusWorking == "Working"

StatusNeedsInput == "Needs Input"

StatusWaiting == "Waiting"

StatusIdle == "Idle"

StatusInactive == "Inactive"

---------------------------------------------------------------------------
(* Strings, as sequences of characters.                                    *)

Dash == <<"-">>

EmptyString == <<>>

UsingPrefix == <<"U", "s", "i", "n", "g", ":", " ">>

ProcessingTask == <<"P", "r", "o", "c", "e", "s", "s", "i", "n", "g", ".", ".", ".">>

Ellipsis == <<".", ".", ".">>

Newline == "\n"

BashName == <<"B", "a", "s", "h">>

EditName == <<"E", "d", "i", "t">>

OkText == <<"o", "k">>

---------------------------------------------------------------------------
(* Log entries.  A nil pointer is the empty sequence, &x is <<x>>.         *)

ContentItem(type, text, name) == [Type |-> type, Text |-> text, Name |-> name]

ToolUse(name) == ContentItem("tool_use", EmptyString, name)

ToolResult == ContentItem("tool_result", EmptyString, EmptyString)

TextItem(text) == ContentItem("text", text, EmptyString)

Usage(in, cc, cr, out) ==
    [InputTokens |-> in, CacheCreationInputTokens |-> cc,
     CacheReadInputTokens |-> cr, OutputTokens |-> out]

Message(content, usage) == [Content |-> content, Usage |-> usage]

LogEntry(type, subtype, ts, message) ==
    [Type |-> type, Subtype |-> subtype, Timestamp |-> ts, Message |-> message,
     Summary |-> EmptyString]

\* a line {"type":"summary","summary":text}
SummaryEntry(text) == [LogEntry("summary", "", ZeroTime, <<>>) EXCEPT !.Summary = text]

---------------------------------------------------------------------------
(* Lines of the log file.  A line is JSON text that decodes to one         *)
(* LogEntry, or text json.Unmarshal rejects (a line cut mid-write), or a   *)
(* blank line.  size is the length of the line in whole mebibytes, rounded *)
(* down: a bufio.Scanner whose buffer is capped at cap mebibytes stops     *)
(* with ErrTooLong at the first line of size cap or more.                  *)

NoEntry == LogEntry("", "", ZeroTime, <<>>)

JsonLine(entry) == [text |-> "json", entry |-> entry, size |-> 0]

\* a well-formed entry whose line is size mebibytes long
LongLine(entry, size) == [text |-> "json", entry |-> entry, size |-> size]

MalformedLine == [text |-> "malformed", entry |-> NoEntry, size |-> 0]

BlankLine == [text |-> "blank", entry |-> NoEntry, size |-> 0]

\* scanner.Buffer(buf, 10*1024*1024) of readLastEntries
ReadLineCap == 10

\* scanner.Buffer(buf, 1024*1024) of extractSummary
SummaryLineCap == 1

\* scanner.Scan() gives up on the line: bufio.ErrTooLong
TooLong(line, cap) == line.size >= cap

\* json.Unmarshal([]byte(line), &entry): <<entry>> when err == nil, else <<>>
Unmarshal(line) == IF line.text = "json" THEN <<line.entry>> ELSE <<>>

RECURSIVE ScanLines(_)
\* the scanner loop of readLastEntries: blank lines and lines that fail
\* to decode are skipped, the others appended in file order
ScanLines(lines) ==
    IF lines = <<>> THEN <<>>
    ELSE LET line == Head(lines)
         IN  IF TooLong(line, ReadLineCap) THEN <<>>
             ELSE IF line.text = "blank" THEN ScanLines(Tail(lines))
             ELSE Unmarshal(line) \o ScanLines(Tail(lines))

\* scanner.Err() after the loop: non-nil when a line exceeded the buffer
ScanErr(lines) == \E i \in 1..Len(lines) : TooLong(lines[i], ReadLineCap)

\* the pair ([]LogEntry, error) for a file that opens; count >= 0
readLastEntries(lines, count) ==
    LET entries == ScanLines(lines)
    IN  [entries |-> IF Len(entries) > count
                     THEN SubSeq(entries, Len(entries) - count + 1, Len(entries))
                     ELSE entries,
         err |-> ScanErr(lines)]

RECURSIVE SummaryScan(_, _)
\* the scanner loop of extractSummary, lastSummary being the text kept so
\* far.  The log writer emits compact JSON, so the quick text test for
\* "type":"summary" passes on exactly the lines that carry that key.
SummaryScan(lines, lastSummary) ==
    IF lines = <<>> THEN lastSummary
    ELSE LET line == Head(lines)
         IN  IF TooLong(line, SummaryLineCap) THEN lastSummary
             ELSE IF line.text = "blank" THEN SummaryScan(Tail(lines), lastSummary)
             ELSE IF line.text = "json" /\ line.entry.Type # "summary"
             THEN SummaryScan(Tail(lines), lastSummary)
             ELSE IF Unmarshal(line) = <<>> THEN SummaryScan(Tail(lines), lastSummary)
             ELSE LET entry == Unmarshal(line)[1]
                  IN  IF entry.Type = "summary" /\ entry.Summary # EmptyString
                      THEN SummaryScan(Tail(lines), entry.Summary)
                      ELSE SummaryScan(Tail(lines), lastSummary)

extractSummary(lines) == SummaryScan(lines, EmptyString)

---------------------------------------------------------------------------
(* Time.  The zero time.Time is before every instant of the clock, and     *)
(* time.Since of it saturates at the largest Duration.                     *)

IsZero(t) == t = ZeroTime

After(t, u) == t > u

\* time.Since(t) > d at clock reading clock
SinceExceeds(t, d, clock) == IsZero(t) \/ clock - t > d

\* time.Since(t) < d at clock reading clock
SinceBelow(t, d, clock) == ~IsZero(t) /\ clock - t < d

---------------------------------------------------------------------------
(* extractTask                                                              *)

RECURSIVE IndexOf(_, _, _)
\* strings.Index(text, c) counted from position i (0-based result, -1 if absent)
IndexOf(text, c, i) ==
    IF i > Len(text) THEN -1
    ELSE IF text[i] = c THEN i - 1
    ELSE IndexOf(text, c, i + 1)

TruncateTask(text) ==
    LET cut == IF Len(text) > 50 THEN SubSeq(text, 1, 47) \o Ellipsis ELSE text
        idx == IndexOf(cut, Newline, 1)
    IN  IF idx > 0 THEN SubSeq(cut, 1, idx) ELSE cut

RECURSIVE TaskOfContent(_)
TaskOfContent(content) ==
    IF content = <<>> THEN Dash
    ELSE LET c == Head(content)
         IN  IF c.Type = "tool_use" /\ c.Name # EmptyString THEN UsingPrefix \o c.Name
             ELSE IF c.Type = "text" /\ c.Text # EmptyString THEN TruncateTask(c.Text)
             ELSE TaskOfContent(Tail(content))

\* entry is a *LogEntry: <<>> or <<e>>
extractTask(entry) ==
    IF entry = <<>> \/ entry[1].Message = <<>> THEN Dash
    ELSE TaskOfContent(entry[1].Message[1].Content)

---------------------------------------------------------------------------
(* determineStatus.  clock is the reading time.Since takes of the wall     *)
(* clock.  Pointers into entries are indexes, 0 for nil.                    *)

\* Result with the ghost flag raised for a session that is Waiting
ResultGhostForWaiting(status, task, ghost) ==
    [status |-> status, task |-> task, ghost |-> status = "Waiting"]

\* Result with the declared fifth status, Idle, given where Waiting is meant
ResultIdleForWaiting(status, task, ghost) ==
    [status |-> IF status = "Waiting" THEN "Idle" ELSE status,
     task |-> task, ghost |-> ghost]

Result(status, task, ghost) == [status |-> status, task |-> task, ghost |-> ghost]

\* a nil pointer dereference: the goroutine panics and no triple is returned
Panic == [status |-> "panic", task |-> EmptyString, ghost |-> FALSE]

RECURSIVE FindLast(_, _, _, _, _, _)
\* the backward loop that finds the last relevant entries, from index i down
FindLast(entries, i, lastAssistant, lastUser, lastSystem, lastTimestamp) ==
    IF i = 0
    THEN [lastAssistant |-> lastAssistant, lastUser |-> lastUser,
          lastSystem |-> lastSystem, lastTimestamp |-> lastTimestamp]
    ELSE LET entry == entries[i]
             ts == IF ~IsZero(entry.Timestamp) /\ After(entry.Timestamp, lastTimestamp)
                   THEN entry.Timestamp ELSE lastTimestamp
             la == IF entry.Type = "assistant" /\ lastAssistant = 0 THEN i ELSE lastAssistant
             lu == IF entry.Type = "user" /\ lastUser = 0 THEN i ELSE lastUser
             ls == IF entry.Type = "system" /\ lastSystem = 0 /\ entry.Subtype = "turn_duration"
                   THEN i ELSE lastSystem
         IN  IF la # 0 /\ lu # 0 /\ ls # 0
             THEN [lastAssistant |-> la, lastUser |-> lu,
                   lastSystem |-> ls, lastTimestamp |-> ts]
             ELSE FindLast(entries, i - 1, la, lu, ls, ts)

RECURSIVE FirstOfType(_, _, _)
\* index of the first content item of the given type from position i, 0 if none
FirstOfType(content, type, i) ==
    IF i > Len(content) THEN 0
    ELSE IF content[i].Type = type THEN i
    ELSE FirstOfType(content, type, i + 1)

\* the tool_use block of determineStatus: <<r>> when it returns r from inside
\* the loop, <<>> when control falls through; pending tells which way
ToolUseCheck(entries, f) ==
    LET lastAssistant == f.lastAssistant
        lastUser == f.lastUser
        lastSystem == f.lastSystem
        none == [returned |-> <<>>, hasPendingToolUse |-> FALSE, pendingToolName |-> EmptyString]
    IN  IF lastAssistant = 0 \/ entries[lastAssistant].Message = <<>> THEN none
        ELSE LET content == entries[lastAssistant].Message[1].Content
                 k == FirstOfType(content, "tool_use", 1)
             IN  IF k = 0 THEN none
                 ELSE IF lastUser # 0 /\ After(entries[lastUser].Timestamp,
                                               entries[lastAssistant].Timestamp)
                 THEN IF entries[lastUser].Message = <<>>
                      THEN [none EXCEPT !.returned = <<Panic>>]
                      ELSE IF FirstOfType(entries[lastUser].Message[1].Content,
                                          "tool_result", 1) # 0
                      THEN IF lastSystem # 0 /\ After(entries[lastSystem].Timestamp,
                                                      entries[lastUser].Timestamp)
                           THEN [none EXCEPT !.returned = <<Result(StatusWaiting, Dash, FALSE)>>]
                           ELSE [none EXCEPT !.returned =
                                     <<Result(StatusWorking, ProcessingTask, FALSE)>>]
                      ELSE [none EXCEPT !.hasPendingToolUse = TRUE,
                                        !.pendingToolName = content[k].Name]
                 ELSE [none EXCEPT !.hasPendingToolUse = TRUE,
                                   !.pendingToolName = content[k].Name]

\* RunningStatus with the 5-minute staleness rule tried before the tool_use rule
RunningStatusStaleFirst(entries, f, clock) ==
    LET tu == ToolUseCheck(entries, f)
        lastAssistant == f.lastAssistant
        lastSystem == f.lastSystem
    IN  IF SinceExceeds(f.lastTimestamp, StaleAfter, clock)
        THEN Result(StatusWaiting, Dash, FALSE)
        ELSE IF tu.returned # <<>> THEN tu.returned[1]
        ELSE IF tu.hasPendingToolUse
        THEN Result(StatusNeedsInput, UsingPrefix \o tu.pendingToolName, FALSE)
        ELSE IF lastSystem # 0
                /\ (lastAssistant = 0
                    \/ After(entries[lastSystem].Timestamp,
                             entries[lastAssistant].Timestamp))
        THEN Result(StatusWaiting, Dash, FALSE)
        ELSE IF lastAssistant # 0
                /\ SinceBelow(entries[lastAssistant].Timestamp, WorkingWindow, clock)
        THEN Result(StatusWorking, extractTask(<<entries[lastAssistant]>>), FALSE)
        ELSE Result(StatusWaiting, Dash, FALSE)

\* the rules of determineStatus that follow the isRunning check
RunningStatus(entries, f, clock) ==
    LET tu == ToolUseCheck(entries, f)
        lastAssistant == f.lastAssistant
        lastSystem == f.lastSystem
    IN  IF tu.returned # <<>> THEN tu.returned[1]
        ELSE IF tu.hasPendingToolUse
        THEN Result(StatusNeedsInput, UsingPrefix \o tu.pendingToolName, FALSE)
        ELSE IF SinceExceeds(f.lastTimestamp, StaleAfter, clock)
        THEN Result(StatusWaiting, Dash, FALSE)
        ELSE IF lastSystem # 0
                /\ (lastAssistant = 0
                    \/ After(entries[lastSystem].Timestamp,
                             entries[lastAssistant].Timestamp))
        THEN Result(StatusWaiting, Dash, FALSE)
        ELSE IF lastAssistant # 0
                /\ SinceBelow(entries[lastAssistant].Timestamp, WorkingWindow, clock)
        THEN Result(StatusWorking, extractTask(<<entries[lastAssistant]>>), FALSE)
        ELSE Result(StatusWaiting, Dash, FALSE)

\* determineStatus without its "if !isRunning" rule
determineStatusNoRunningRule(entries, isRunning, clock) ==
    IF Len(entries) = 0
    THEN IF isRunning THEN Result(StatusWaiting, Dash, FALSE)
         ELSE Result(StatusInactive, Dash, FALSE)
    ELSE RunningStatus(entries, FindLast(entries, Len(entries), 0, 0, 0, ZeroTime), clock)

determineStatus(entries, isRunning, clock) ==
    IF Len(entries) = 0
    THEN IF isRunning THEN Result(StatusWaiting, Dash, FALSE)
         ELSE Result(StatusInactive, Dash, FALSE)
    ELSE LET f == FindLast(entries, Len(entries), 0, 0, 0, ZeroTime)
         IN  IF ~isRunning THEN Result(StatusInactive, Dash, FALSE)
             ELSE RunningStatus(entries, f, clock)

---------------------------------------------------------------------------
(* extractContextUsage.  The percentage float64(totalTokens) /              *)
(* float64(DefaultContextWindow) * 100 is kept exact, as the numerator     *)
(* totalTokens * 100 over the denominator DefaultContextWindow.             *)

\* Percent capped at 100
PercentClamped(totalTokens) ==
    [num |-> IF totalTokens > DefaultContextWindow
             THEN DefaultContextWindow * 100 ELSE totalTokens * 100,
     den |-> DefaultContextWindow]

Percent(totalTokens) == [num |-> totalTokens * 100, den |-> DefaultContextWindow]

ContextUsage(percent, tokens) == [percent |-> percent, tokens |-> tokens]

\* IsBoundary that knows compact_boundary only
IsBoundaryCompactOnly(entry) ==
    entry.Type = "system" /\ entry.Subtype = "compact_boundary"

IsBoundary(entry) ==
    /\ entry.Type = "system"
    /\ (entry.Subtype = "compact_boundary" \/ entry.Subtype = "microcompact_boundary")

RECURSIVE LastBoundary(_, _)
\* the first loop: index of the most recent boundary at or below i, 0 for
\* Go's lastBoundaryIdx = -1 (indexes here are 1-based)
LastBoundary(entries, i) ==
    IF i = 0 THEN 0
    ELSE IF IsBoundary(entries[i]) THEN i
    ELSE LastBoundary(entries, i - 1)

\* TotalTokens with the output tokens counted in
TotalTokensWithOutput(usage) ==
    usage.InputTokens + usage.CacheCreationInputTokens + usage.CacheReadInputTokens
        + usage.OutputTokens

TotalTokens(usage) ==
    usage.InputTokens + usage.CacheCreationInputTokens + usage.CacheReadInputTokens

RECURSIVE UsageAfter(_, _, _)

\* one round of UsageAfter that does not skip a record whose input side is
\* zero and takes the percentage of all four counters
UsageAfterNoZeroSkip(entries, i, lastBoundaryIdx) ==
    IF i = 0 \/ i <= lastBoundaryIdx THEN ContextUsage(Percent(0), 0)
    ELSE LET entry == entries[i]
         IN  IF entry.Type # "assistant" \/ entry.Message = <<>>
                \/ entry.Message[1].Usage = <<>>
             THEN UsageAfter(entries, i - 1, lastBoundaryIdx)
             ELSE ContextUsage(Percent(TotalTokensWithOutput(entry.Message[1].Usage[1])),
                               TotalTokens(entry.Message[1].Usage[1]))

\* the second loop, from index i down to just above lastBoundaryIdx
UsageAfter(entries, i, lastBoundaryIdx) ==
    IF i = 0 \/ i <= lastBoundaryIdx THEN ContextUsage(Percent(0), 0)
    ELSE LET entry == entries[i]
         IN  IF entry.Type # "assistant" \/ entry.Message = <<>>
                \/ entry.Message[1].Usage = <<>>
             THEN UsageAfter(entries, i - 1, lastBoundaryIdx)
             ELSE LET totalTokens == TotalTokens(entry.Message[1].Usage[1])
                  IN  IF totalTokens = 0
                      THEN UsageAfter(entries, i - 1, lastBoundaryIdx)
                      ELSE ContextUsage(Percent(totalTokens), totalTokens)

extractContextUsage(entries) ==
    UsageAfter(entries, Len(entries), LastBoundary(entries, Len(entries)))

---------------------------------------------------------------------------
(* The path codec: encodeProjectPath, decodeProjectName, formatProjectPath.*)

Slash == "/"

Dot == "."

DashChar == "-"

ProjectsMarker == <<"-", "P", "r", "o", "j", "e", "c", "t", "s", "-">>

UsersName == <<"U", "s", "e", "r", "s">>

\* strings.ReplaceAll(s, old, new) for one-character old and new
ReplaceAll(s, old, new) == [i \in 1..Len(s) |-> IF s[i] = old THEN new ELSE s[i]]

encodeProjectPath(path) == ReplaceAll(ReplaceAll(path, Slash, DashChar), Dot, DashChar)

\* strings.TrimPrefix(s, "-")
TrimPrefix(s) == IF Len(s) > 0 /\ s[1] = DashChar THEN Tail(s) ELSE s

\* strings.Index(s, sub): 0-based position of the first occurrence, -1 if none
Index(s, sub) ==
    LET at == {i \in 0..(Len(s) - Len(sub)) : SubSeq(s, i + 1, i + Len(sub)) = sub}
    IN  IF at = {} THEN -1 ELSE CHOOSE i \in at : \A j \in at : i <= j

RECURSIVE SplitN(_, _)
\* strings.SplitN(s, "-", n) for n >= 1
SplitN(s, n) ==
    LET i == Index(s, <<DashChar>>)
    IN  IF n = 1 \/ i = -1 THEN <<s>>
        ELSE <<SubSeq(s, 1, i)>> \o SplitN(SubSeq(s, i + 2, Len(s)), n - 1)

formatProjectPath(path) ==
    LET parts == SplitN(path, 2)
    IN  IF Len(parts) = 2 THEN parts[1] \o <<Slash>> \o parts[2] ELSE path

\* decodeProjectName without the rule that skips "Users-username-"
decodeProjectNameNoUsersRule(name) ==
    LET trimmed == TrimPrefix(name)
        idx == Index(trimmed, ProjectsMarker)
    IN  IF idx # -1
        THEN formatProjectPath(SubSeq(trimmed, idx + Len(ProjectsMarker) + 1, Len(trimmed)))
        ELSE ReplaceAll(trimmed, DashChar, Slash)

decodeProjectName(name) ==
    LET trimmed == TrimPrefix(name)
        idx == Index(trimmed, ProjectsMarker)
        parts == SplitN(trimmed, 3)
    IN  IF idx # -1
        THEN formatProjectPath(SubSeq(trimmed, idx + Len(ProjectsMarker) + 1, Len(trimmed)))
        ELSE IF Len(parts) >= 3 /\ parts[1] = UsersName
        THEN formatProjectPath(parts[3])
        ELSE ReplaceAll(trimmed, DashChar, Slash)

---------------------------------------------------------------------------
(* findMostRecentLog, over the entries os.ReadDir lists (sorted by name).  *)
(* A path is written as the file's name; "" is the empty sequence.         *)

JsonlSuffix == <<".", "j", "s", "o", "n", "l">>

AgentPrefix == <<"a", "g", "e", "n", "t", "-">>

HasPrefix(s, prefix) ==
    Len(s) >= Len(prefix) /\ SubSeq(s, 1, Len(prefix)) = prefix

HasSuffix(s, suffix) ==
    Len(s) >= Len(suffix) /\ SubSeq(s, Len(s) - Len(suffix) + 1, Len(s)) = suffix

\* infoErr: entry.Info() fails, the file having gone since the listing
DirEntry(name, isDir, infoErr, size, modTime) ==
    [Name |-> name, IsDir |-> isDir, InfoErr |-> infoErr,
     Size |-> size, ModTime |-> modTime]

Tracked(mostRecent, mostRecentTime, newestOverall, newestOverallTime) ==
    [mostRecent |-> mostRecent, mostRecentTime |-> mostRecentTime,
     newestOverall |-> newestOverall, newestOverallTime |-> newestOverallTime]

RECURSIVE TrackLogs(_, _)
\* the loop over the directory entries, t holding the four tracking variables
TrackLogs(entries, t) ==
    IF entries = <<>> THEN t
    ELSE LET entry == Head(entries)
             rest == Tail(entries)
         IN  IF entry.IsDir THEN TrackLogs(rest, t)
             ELSE IF ~HasSuffix(entry.Name, JsonlSuffix) THEN TrackLogs(rest, t)
             ELSE IF HasPrefix(entry.Name, AgentPrefix) THEN TrackLogs(rest, t)
             ELSE IF entry.InfoErr THEN TrackLogs(rest, t)
             ELSE LET newer == After(entry.ModTime, t.newestOverallTime)
                      u == IF newer
                           THEN [t EXCEPT !.newestOverall = entry.Name,
                                          !.newestOverallTime = entry.ModTime]
                           ELSE t
                      v == IF entry.Size > 0 /\ After(entry.ModTime, u.mostRecentTime)
                           THEN [u EXCEPT !.mostRecent = entry.Name,
                                          !.mostRecentTime = entry.ModTime]
                           ELSE u
                  IN  TrackLogs(rest, v)

\* PickLog without the rule for a newer empty file
PickLogNonEmptyOnly(t) == t.mostRecent

\* the closing choice between the newest file and the newest non-empty one
PickLog(t) ==
    IF t.newestOverall # t.mostRecent /\ After(t.newestOverallTime, t.mostRecentTime)
    THEN t.newestOverall
    ELSE t.mostRecent

findMostRecentLog(entries) ==
    PickLog(TrackLogs(entries, Tracked(EmptyString, ZeroTime, EmptyString, ZeroTime)))

---------------------------------------------------------------------------
(* parseSession, for the project's selected log file.                      *)

Session(status, task, isGhost, ghostPid, lastActivity, usage) ==
    [Status |-> status, Task |-> task, IsGhost |-> isGhost, GhostPID |-> ghostPid,
     LastActivity |-> lastActivity,
     ContextPercent |-> usage.percent, ContextTokens |-> usage.tokens]

RECURSIVE LastStamp(_, _, _)
\* LastStamp taking the newer of the last entry timestamp and the fallback
LastStampNewest(entries, i, fallback) ==
    LET S == {j \in 1..i : ~IsZero(entries[j].Timestamp)}
        last == CHOOSE j \in S : \A k \in S : k <= j
    IN  IF S = {} THEN fallback
        ELSE IF After(entries[last].Timestamp, fallback) THEN entries[last].Timestamp
        ELSE fallback

\* the loop that takes the last non-zero entry timestamp, else keeps fallback
LastStamp(entries, i, fallback) ==
    IF i = 0 THEN fallback
    ELSE IF ~IsZero(entries[i].Timestamp) THEN entries[i].Timestamp
    ELSE LastStamp(entries, i - 1, fallback)

\* parseSession with the pid stored before the early returns
parseSessionPidFirst(lines, modTime, runningPid, clock) ==
    LET isRunning == runningPid # 0
        read == readLastEntries(lines, ReadCount)
        entries == read.entries
        stored == IF isRunning /\ runningPid > 0 THEN runningPid ELSE 0
        default == Session(StatusInactive, EmptyString, FALSE, stored, modTime,
                           ContextUsage(Percent(0), 0))
        r == determineStatus(entries, isRunning, clock)
    IN  IF read.err THEN <<default>>
        ELSE IF Len(entries) = 0 THEN <<default>>
        ELSE IF r = Panic THEN <<>>
        ELSE <<Session(r.status, r.task, r.ghost, stored,
                       LastStamp(entries, Len(entries), modTime),
                       extractContextUsage(entries))>>

\* runningPid is runningDirs[projectName] (0: key absent), modTime the file's
\* info.ModTime().  The outcome is <<session>>, or <<>> when determineStatus
\* panicked and took the process down.
parseSession(lines, modTime, runningPid, clock) ==
    LET isRunning == runningPid # 0
        read == readLastEntries(lines, ReadCount)
        entries == read.entries
        default == Session(StatusInactive, EmptyString, FALSE, 0, modTime,
                           ContextUsage(Percent(0), 0))
        r == determineStatus(entries, isRunning, clock)
    IN  IF read.err THEN <<default>>
        ELSE IF Len(entries) = 0 THEN <<default>>
        ELSE IF r = Panic THEN <<>>
        ELSE <<Session(r.status, r.task, r.ghost,
                       IF isRunning /\ runningPid > 0 THEN runningPid ELSE 0,
                       LastStamp(entries, Len(entries), modTime),
                       extractContextUsage(entries))>>

---------------------------------------------------------------------------
(* FindGhostProcesses, over the sessions a discovery pass returned.        *)

GhostProcess(ghostPid, age) == [PID |-> ghostPid, Age |-> age]

\* age > time.Hour, taken a closed bound too early
IsGhostAgeInclusive(age) == age >= GhostAge

IsGhostAge(age) == age > GhostAge

RECURSIVE FilterGhosts(_, _)
FilterGhosts(list, clock) ==
    IF list = <<>> THEN <<>>
    ELSE LET s == Head(list)
             age == clock - s.LastActivity
         IN  IF s.GhostPID = 0 THEN FilterGhosts(Tail(list), clock)
             ELSE IF IsGhostAge(age)
             THEN <<GhostProcess(s.GhostPID, age)>> \o FilterGhosts(Tail(list), clock)
             ELSE FilterGhosts(Tail(list), clock)

---------------------------------------------------------------------------
(* Discover over the projects root, and KillGhostProcesses.  A project is  *)
(* the log file findMostRecentLog selects in its directory (log, mtime)    *)
(* and runningDirs[projectName] (pid, 0 when absent).                      *)

ProjectState(lines, modTime, runningPid) ==
    [log |-> lines, mtime |-> modTime, pid |-> runningPid]

\* the Session literal parseSession starts from, with its naming fields
WithProject(projectName, s) ==
    [Project |-> decodeProjectName(projectName), ProjectPath |-> projectName,
     Status |-> s.Status, Task |-> s.Task, IsGhost |-> s.IsGhost,
     GhostPID |-> s.GhostPID, LastActivity |-> s.LastActivity,
     ContextPercent |-> s.ContextPercent, ContextTokens |-> s.ContextTokens]

\* parseSession(entry.Name(), logFile, runningDirs): <<session>>, or <<>>
\* when it panicked
parseProject(projectName, project, clock) ==
    LET out == parseSession(project.log, project.mtime, project.pid, clock)
    IN  IF out = <<>> THEN <<>> ELSE <<WithProject(projectName, out[1])>>

\* parseSession returning its session with the error of readLastEntries,
\* which makes Discover skip the project
parseUnreadableAsError(projectName, project) == <<>>

\* parseSession for a log os.Stat finds and os.Open refuses: readLastEntries
\* returns (nil, err) and the session literal comes back with its defaults
parseUnreadable(projectName, project) ==
    <<WithProject(projectName,
                  Session(StatusInactive, EmptyString, FALSE, 0, project.mtime,
                          ContextUsage(Percent(0), 0)))>>

statusPriority(status) ==
    CASE status = StatusWorking -> 0
      [] status = StatusNeedsInput -> 1
      [] status = StatusWaiting -> 2
      [] status = StatusIdle -> 3
      [] status = StatusInactive -> 4
      [] OTHER -> 5

\* Less ordering equal priorities by the older activity first
LessOldestFirst(a, b) ==
    LET pi == statusPriority(a.Status)
        pj == statusPriority(b.Status)
    IN  IF pi # pj THEN pi < pj ELSE After(b.LastActivity, a.LastActivity)

\* the less function handed to sort.Slice
Less(a, b) ==
    LET pi == statusPriority(a.Status)
        pj == statusPriority(b.Status)
    IN  IF pi # pj THEN pi < pj ELSE After(a.LastActivity, b.LastActivity)

\* what sort.Slice can leave: sort.Slice is not stable, so any arrangement
\* of the elements in which no later one is less than an earlier one
SortSlice(list) ==
    LET n == Len(list)
        orders == {f \in [1..n -> 1..n] : \A i, j \in 1..n : i # j => f[i] # f[j]}
    IN  {[i \in 1..n |-> list[f[i]]] : f \in
            {g \in orders : \A i, j \in 1..n :
                                i < j => ~Less(list[g[j]], list[g[i]])}}

\* the signals of a KillGhostProcesses loop that stops at the first failure
SignalAllStopAtFailure(found, gone) ==
    LET failed == {i \in 1..Len(found) : found[i].PID \in gone}
        last == IF failed = {} THEN Len(found)
                ELSE CHOOSE i \in failed : \A j \in failed : i <= j
    IN  [i \in 1..last |-> [PID |-> found[i].PID, ok |-> found[i].PID \notin gone]]

\* the signals of a KillGhostProcesses loop that signals a process again
\* when its signal failed
SignalAllRetrying(found, gone) ==
    LET once == [i \in 1..Len(found) |->
                    [PID |-> found[i].PID, ok |-> found[i].PID \notin gone]]
        again == SelectSeq(once, LAMBDA s : ~s.ok)
    IN  once \o again

\* the loop of KillGhostProcesses: one SIGTERM per ghost, in order; the
\* signal fails for the processes in gone, which have exited already
SignalAll(found, gone) ==
    [i \in 1..Len(found) |-> [PID |-> found[i].PID, ok |-> found[i].PID \notin gone]]

\* the killed slice: the ghosts whose signal was sent without error
Killed(found, sent) ==
    LET Ok(g) == \E i \in 1..Len(sent) : sent[i].PID = g.PID /\ sent[i].ok
    IN  SelectSeq(found, Ok)

---------------------------------------------------------------------------
(* The interactive live view, runLiveView.  view holds the loop's state:   *)
(* state is "off" before the call, "loop" while the select loop runs,      *)
(* "ended" after a return or os.Exit and "crashed" after a panic; keyCh    *)
(* and sigCh are the two buffered channels of capacity one.                *)

ViewModeLive == 0

ViewModeHistory == 1

\* the bytes ReadKey delivers, as runes
Key_h == 104

Key_H == 72

Key_l == 108

Key_L == 76

Key_q == 113

KeyEsc == 27

CtrlC == 3

\* the last event the loop handled and whether handling it drew a frame
Event(ev, key, rendered) == [ev |-> ev, key |-> key, rendered |-> rendered]

ViewOff ==
    [state |-> "off", mode |-> ViewModeLive, shown |-> <<>>,
     keyCh |-> <<>>, sigCh |-> FALSE, done |-> FALSE,
     raw |-> FALSE, cursorHidden |-> FALSE, last |-> Event("none", 0, FALSE)]

\* the deferred function of runLiveView
Cleanup(v) == [v EXCEPT !.done = TRUE, !.raw = FALSE, !.cursorHidden = FALSE]

\* Returned for a loop that leaves through os.Exit, which runs no deferred
\* function
ReturnedByExit(v) == [v EXCEPT !.state = "ended"]

Returned(v) == [Cleanup(v) EXCEPT !.state = "ended"]

\* a panic unwinds through the deferred function and ends the process
Crashed(v) == [Cleanup(v) EXCEPT !.state = "crashed"]

\* the closure render; liveOk tells whether session.Discover returned
render(v, liveOk) ==
    IF v.mode = ViewModeHistory
    THEN [v EXCEPT !.shown = <<ViewModeHistory>>, !.last.rendered = TRUE]
    ELSE IF liveOk
    THEN [v EXCEPT !.shown = <<ViewModeLive>>, !.last.rendered = TRUE]
    ELSE Crashed(v)

\* the switch of "case key := <-keyCh"
handleKey(v, k, liveOk) ==
    IF k \in {Key_h, Key_H}
    THEN IF v.mode # ViewModeHistory
         THEN render([v EXCEPT !.mode = ViewModeHistory], liveOk)
         ELSE v
    ELSE IF k \in {Key_l, Key_L}
    THEN IF v.mode # ViewModeLive
         THEN render([v EXCEPT !.mode = ViewModeLive], liveOk)
         ELSE v
    ELSE IF k = CtrlC THEN Returned(v)
    ELSE v

\* where the process stands once the loop is in state
PcOf(state) ==
    IF state = "crashed" THEN "crashed"
    ELSE IF state = "ended" THEN "ended"
    ELSE "idle"

---------------------------------------------------------------------------
(* The environment: what the assistant writes, the clock, the process.     *)

\* the instants the clock is read at: the start, the edge of the 30-second
\* window, and one hour after that edge; the ages seen are 0 s, 30 s,
\* exactly 1 h and 1 h 30 s
Epoch == ZeroTime + Second

Instants == {Epoch, Epoch + WorkingWindow, Epoch + WorkingWindow + GhostAge}

AssistantPids == {4242}

AssistantToolUse(ts) ==
    LogEntry("assistant", "", ts,
             <<Message(<<TextItem(OkText), ToolUse(BashName), ToolUse(EditName)>>,
                       <<Usage(10, 1000, 19000, 500)>>)>>)

AssistantText(ts) ==
    LogEntry("assistant", "", ts, <<Message(<<TextItem(OkText)>>, <<>>)>>)

UserToolResult(ts) == LogEntry("user", "", ts, <<Message(<<ToolResult>>, <<>>)>>)

UserText(ts) == LogEntry("user", "", ts, <<Message(<<TextItem(OkText)>>, <<>>)>>)

\* a user line without a "message" field
UserBare(ts) == LogEntry("user", "", ts, <<>>)

TurnDuration(ts) == LogEntry("system", "turn_duration", ts, <<>>)

\* what one append can write at clock reading t; a line may lack "timestamp"
StatusLines(t) ==
    {JsonLine(AssistantToolUse(t)), JsonLine(AssistantToolUse(ZeroTime)),
     JsonLine(AssistantText(t)), JsonLine(UserToolResult(t)),
     JsonLine(UserText(t)), JsonLine(UserBare(t)),
     JsonLine(TurnDuration(t)), MalformedLine}

\* the clock at its start, an empty log, no process, the monitor not started
InitMonitor ==
    /\ now = Epoch
    /\ log = <<>>
    /\ mtime = Epoch
    /\ pid = 0
    /\ pc = "idle"
    /\ sessions = <<>>
    /\ verdict = <<>>
    /\ ghosts = <<>>
    /\ ret = <<>>
    /\ signals = <<>>
    /\ killed = <<>>
    /\ view = ViewOff

Init ==
    /\ InitMonitor
    /\ dir = <<>>
    /\ cwd = <<>>
    /\ root = <<>>

AppendLine(line) ==
    /\ pc = "idle"
    /\ Len(log) < MaxLog
    /\ log' = Append(log, line)
    /\ mtime' = now
    /\ UNCHANGED <<now, pid, pc, sessions, verdict, ghosts>>
    /\ UNCHANGED others

Tick(t) ==
    /\ pc = "idle"
    /\ t > now
    /\ now' = t
    /\ UNCHANGED <<log, mtime, pid, pc, sessions, verdict, ghosts>>
    /\ UNCHANGED others

ProcStart(p) ==
    /\ pc = "idle"
    /\ pid = 0
    /\ pid' = p
    /\ UNCHANGED <<now, log, mtime, pc, sessions, verdict, ghosts>>
    /\ UNCHANGED others

ProcExit ==
    /\ pc = "idle"
    /\ pid # 0
    /\ pid' = 0
    /\ UNCHANGED <<now, log, mtime, pc, sessions, verdict, ghosts>>
    /\ UNCHANGED others

---------------------------------------------------------------------------
(* The monitor: one pass, then the process exits.                          *)

Discover ==
    /\ pc = "idle"
    /\ LET out == parseSession(log, mtime, pid, now)
       IN  /\ sessions' = out
           /\ pc' = IF out = <<>> THEN "crashed" ELSE "listed"
    /\ UNCHANGED <<now, log, mtime, pid, verdict, ghosts>>
    /\ UNCHANGED others

FindGhostProcesses ==
    /\ pc = "idle"
    /\ LET out == parseSession(log, mtime, pid, now)
       IN  /\ sessions' = out
           /\ ghosts' = FilterGhosts(out, now)
           /\ pc' = IF out = <<>> THEN "crashed" ELSE "ghosts"
    /\ UNCHANGED <<now, log, mtime, pid, verdict>>
    /\ UNCHANGED others

\* determineStatus applied to the tailed entries and the running flag
Classify ==
    /\ pc = "idle"
    /\ LET r == determineStatus(readLastEntries(log, ReadCount).entries, pid # 0, now)
       IN  /\ verdict' = <<r>>
           /\ pc' = IF r = Panic THEN "crashed" ELSE "classified"
    /\ UNCHANGED <<now, log, mtime, pid, sessions, ghosts>>
    /\ UNCHANGED others

Exit ==
    /\ pc # "idle"
    /\ pc' = "idle"
    /\ sessions' = <<>>
    /\ verdict' = <<>>
    /\ ghosts' = <<>>
    /\ ret' = <<>>
    /\ signals' = <<>>
    /\ killed' = <<>>
    /\ view' = ViewOff
    /\ UNCHANGED <<now, log, mtime, pid, dir, cwd, root>>

Next ==
    \/ \E line \in StatusLines(now) : AppendLine(line)
    \/ \E t \in Instants : Tick(t)
    \/ \E p \in AssistantPids : ProcStart(p)
    \/ ProcExit
    \/ Discover
    \/ FindGhostProcesses
    \/ Classify
    \/ Exit

Spec == Init /\ [][Next]_vars

---------------------------------------------------------------------------
(* The context usage estimator on its own: logs made of usage records and  *)
(* compaction boundaries, read by a discovery pass.                        *)

AssistantUsage(ts, usage) ==
    LogEntry("assistant", "", ts, <<Message(<<TextItem(OkText)>>, <<usage>>)>>)

CompactBoundary(ts) == LogEntry("system", "compact_boundary", ts, <<>>)

MicrocompactBoundary(ts) == LogEntry("system", "microcompact_boundary", ts, <<>>)

\* the last two: a request larger than the 200000-token window, and a
\* record whose input side is zero
UsageRecords ==
    {Usage(10, 1000, 19000, 500), Usage(5, 500, 9500, 100),
     Usage(10, 1000, 249000, 500), Usage(0, 0, 0, 7)}

UsageEntries(t) ==
    {AssistantUsage(t, u) : u \in UsageRecords}
        \cup {AssistantText(t), UserText(t), CompactBoundary(t), MicrocompactBoundary(t)}

NextUsage ==
    \/ \E e \in UsageEntries(now) : AppendLine(JsonLine(e))
    \/ Discover
    \/ Exit

SpecUsage == Init /\ [][NextUsage]_vars

---------------------------------------------------------------------------
(* The log reader on its own: files with blank, cut, long and summary      *)
(* lines, read by readLastEntries with a small count and by extractSummary.*)

SummaryTexts == {<<"a">>, <<"b">>, EmptyString}

\* lengths, in mebibytes, of lines over extractSummary's cap and over both
LongSizes == {SummaryLineCap + 1, ReadLineCap + 2}

ReadLines(t) ==
    {JsonLine(AssistantText(t)), JsonLine(UserText(t)), MalformedLine, BlankLine}
        \cup {LongLine(AssistantText(t), n) : n \in LongSizes}
        \cup {JsonLine(SummaryEntry(text)) : text \in SummaryTexts}

ReadLastEntries(count) ==
    /\ pc = "idle"
    /\ LET r == readLastEntries(log, count)
       IN  ret' = <<[count |-> count, entries |-> r.entries, err |-> r.err]>>
    /\ pc' = "read"
    /\ UNCHANGED <<view, now, log, mtime, pid, sessions, verdict, ghosts,
                   dir, cwd, root, signals, killed>>

ExtractSummary ==
    /\ pc = "idle"
    /\ ret' = <<extractSummary(log)>>
    /\ pc' = "summarised"
    /\ UNCHANGED <<view, now, log, mtime, pid, sessions, verdict, ghosts,
                   dir, cwd, root, signals, killed>>

NextRead ==
    \/ \E line \in ReadLines(now) : AppendLine(line)
    \/ \E count \in 0..MaxLog : ReadLastEntries(count)
    \/ ExtractSummary
    \/ Exit

SpecRead == Init /\ [][NextRead]_vars

---------------------------------------------------------------------------
(* One project directory on its own: files are written and touched as the  *)
(* clock advances, and findMostRecentLog picks the log of the project.     *)

\* the names a project directory can hold, in the order os.ReadDir lists them
FileNames ==
    << <<"a", ".", "j", "s", "o", "n", "l">>,
       <<"a", "g", "e", "n", "t", "-", "a", ".", "j", "s", "o", "n", "l">>,
       <<"b", ".", "j", "s", "o", "n", "l">>,
       <<"b", ".", "t", "x", "t">>,
       <<"d", ".", "j", "s", "o", "n", "l">> >>

\* the name that is a subdirectory when it exists
SubdirName == FileNames[Len(FileNames)]

RECURSIVE ListFrom(_, _, _)
\* os.ReadDir: the entries of files in name order, Info failing for those in gone
ListFrom(files, gone, i) ==
    IF i > Len(FileNames) THEN <<>>
    ELSE LET here == {f \in files : f.Name = FileNames[i]}
         IN  (IF here = {} THEN <<>>
              ELSE LET f == CHOOSE g \in here : TRUE
                   IN  <<[f EXCEPT !.InfoErr = (f.Name \in gone)]>>)
             \o ListFrom(files, gone, i + 1)

ReadDir(files, gone) == ListFrom(files, gone, 1)

InitLogs ==
    /\ InitMonitor
    /\ dir = {}
    /\ cwd = <<>>
    /\ root = <<>>

\* a file is created or rewritten with the given size, in bytes
WriteFile(name, size) ==
    /\ pc = "idle"
    /\ name # SubdirName
    /\ dir' = {f \in dir : f.Name # name}
                  \cup {DirEntry(name, FALSE, FALSE, size, now)}
    /\ UNCHANGED <<view, now, log, mtime, pid, pc, sessions, verdict, ghosts,
                   ret, cwd, root, signals, killed>>

Mkdir ==
    /\ pc = "idle"
    /\ \A f \in dir : f.Name # SubdirName
    /\ dir' = dir \cup {DirEntry(SubdirName, TRUE, FALSE, 1, now)}
    /\ UNCHANGED <<view, now, log, mtime, pid, pc, sessions, verdict, ghosts,
                   ret, cwd, root, signals, killed>>

\* findMostRecentLog(projectDir); gone are files removed after the listing
FindMostRecentLog(gone) ==
    /\ pc = "idle"
    /\ gone \subseteq {f.Name : f \in dir}
    /\ ret' = <<[logFile |-> findMostRecentLog(ReadDir(dir, gone)), gone |-> gone]>>
    /\ pc' = "found"
    /\ UNCHANGED <<view, now, log, mtime, pid, sessions, verdict, ghosts,
                   dir, cwd, root, signals, killed>>

NextLogs ==
    \/ \E i \in 1..Len(FileNames) : \E size \in {0, 1} : WriteFile(FileNames[i], size)
    \/ Mkdir
    \/ \E t \in Instants : Tick(t)
    \/ \E gone \in {{}} \cup {{FileNames[i]} : i \in 1..Len(FileNames)} :
           FindMostRecentLog(gone)
    \/ Exit

SpecLogs == InitLogs /\ [][NextLogs]_vars

---------------------------------------------------------------------------
(* The path codec on its own: the working directory of an assistant        *)
(* process, held as its components, is encoded as lsof reports it and the  *)
(* key is decoded as parseSession does.                                    *)

MaxDepth == 5

Components ==
    {UsersName, <<"u">>, <<"P", "r", "o", "j", "e", "c", "t", "s">>,
     <<"o">>, <<"p">>, <<"a", "-", "b">>, <<"v", ".", "1">>}

RECURSIVE PathOf(_)
\* the absolute path with the given components
PathOf(components) ==
    IF components = <<>> THEN <<>>
    ELSE <<Slash>> \o Head(components) \o PathOf(Tail(components))

Paths == UNION {[1..n -> Components] : n \in 2..MaxDepth}

InitCodec ==
    /\ InitMonitor
    /\ dir = <<>>
    /\ cwd \in Paths
    /\ root = <<>>

\* the key getRunningClaudeDirs makes of the cwd and the label made of the key
DecodeKey ==
    /\ pc = "idle"
    /\ LET key == encodeProjectPath(PathOf(cwd))
       IN  ret' = <<[key |-> key, label |-> decodeProjectName(key)]>>
    /\ pc' = "decoded"
    /\ UNCHANGED <<view, now, log, mtime, pid, sessions, verdict, ghosts,
                   dir, cwd, root, signals, killed>>

NextCodec == DecodeKey \/ Exit

SpecCodec == InitCodec /\ [][NextCodec]_vars

---------------------------------------------------------------------------
(* The projects root: two projects whose logs grow and whose processes     *)
(* start and exit, beside a directory without a log, a hidden directory    *)
(* and a plain file.  The monitor runs Discover, FindGhostProcesses or     *)
(* KillGhostProcesses over all of them.                                    *)

MaxLines == 3

KeyP == <<"-", "o", "-", "p">>

KeyQ == <<"-", "o", "-", "q">>

KeyEmpty == <<"-", "o", "-", "r">>

KeyHidden == <<".", "h">>

PlainFile == <<"n">>

ProjectDirs == {KeyP, KeyQ}

\* os.ReadDir(projectsDir), sorted by name
RootEntries ==
    << [Name |-> KeyP, IsDir |-> TRUE], [Name |-> KeyQ, IsDir |-> TRUE],
       [Name |-> KeyEmpty, IsDir |-> TRUE], [Name |-> KeyHidden, IsDir |-> TRUE],
       [Name |-> PlainFile, IsDir |-> FALSE] >>

\* the pid of the assistant process whose cwd is the project
PidOf(key) == IF key = KeyP THEN 4242 ELSE 4243

\* the hidden directory holds a log with one entry
HiddenProject == ProjectState(<<JsonLine(AssistantText(Epoch))>>, Epoch, 0)

ProjectAt(rt, name) == IF name \in DOMAIN rt THEN rt[name] ELSE HiddenProject

\* findMostRecentLog(projectDir) # "": the directory holds a log file
HasLog(rt, name) == name \in DOMAIN rt \/ name = KeyHidden

\* how a project directory answers during one pass: "ok", "nolist" when
\* os.ReadDir of it fails, "nostat" when os.Stat of its log file fails,
\* "noread" when os.Open of its log file fails
Modes == {"ok", "nolist", "nostat", "noread"}

AllOk == [k \in ProjectDirs |-> "ok"]

ModeOf(access, name) == IF name \in DOMAIN access THEN access[name] ELSE "ok"

DiscoverPass(crashed, list) == [crashed |-> crashed, list |-> list]

RECURSIVE DiscoverFrom(_, _, _, _, _)
\* the loop of Discover from root entry i on, list being the sessions
\* appended so far; a panic in parseSession ends the whole pass
DiscoverFrom(rt, access, clock, i, list) ==
    IF i > Len(RootEntries) THEN DiscoverPass(FALSE, list)
    ELSE LET entry == RootEntries[i]
             skip == DiscoverFrom(rt, access, clock, i + 1, list)
         IN  IF ~entry.IsDir THEN skip
             ELSE IF HasPrefix(entry.Name, <<Dot>>) THEN skip
             ELSE IF ModeOf(access, entry.Name) = "nolist" THEN skip
             ELSE IF ~HasLog(rt, entry.Name) THEN skip
             ELSE IF ModeOf(access, entry.Name) = "nostat" THEN skip
             ELSE IF ModeOf(access, entry.Name) = "noread"
             THEN DiscoverFrom(rt, access, clock, i + 1,
                               list \o parseUnreadable(entry.Name, ProjectAt(rt, entry.Name)))
             ELSE LET out == parseProject(entry.Name, ProjectAt(rt, entry.Name), clock)
                  IN  IF out = <<>> THEN DiscoverPass(TRUE, <<>>)
                      ELSE DiscoverFrom(rt, access, clock, i + 1, list \o out)

InitProjects ==
    /\ InitMonitor
    /\ dir = <<>>
    /\ cwd = <<>>
    /\ root = [k \in ProjectDirs |-> ProjectState(<<>>, Epoch, 0)]

TotalLines == Len(root[KeyP].log) + Len(root[KeyQ].log)

AppendTo(k, line) ==
    /\ pc = "idle"
    /\ TotalLines < MaxLines
    /\ root' = [root EXCEPT ![k].log = Append(@, line), ![k].mtime = now]
    /\ UNCHANGED <<view, now, log, mtime, pid, pc, sessions, verdict, ghosts,
                   ret, dir, cwd, signals, killed>>

StartIn(k) ==
    /\ pc = "idle"
    /\ root[k].pid = 0
    /\ root' = [root EXCEPT ![k].pid = PidOf(k)]
    /\ UNCHANGED <<view, now, log, mtime, pid, pc, sessions, verdict, ghosts,
                   ret, dir, cwd, signals, killed>>

ExitIn(k) ==
    /\ pc = "idle"
    /\ root[k].pid # 0
    /\ root' = [root EXCEPT ![k].pid = 0]
    /\ UNCHANGED <<view, now, log, mtime, pid, pc, sessions, verdict, ghosts,
                   ret, dir, cwd, signals, killed>>

\* DiscoverProjects that refreshes the modification time of the logs it read
DiscoverProjectsTouching(rootErr, access) ==
    /\ pc = "idle"
    /\ ret' = <<[op |-> "Discover", rootErr |-> rootErr, access |-> access]>>
    /\ LET d == DiscoverFrom(root, access, now, 1, <<>>)
       IN  IF rootErr THEN pc' = "failed" /\ sessions' = <<>>
           ELSE IF d.crashed THEN pc' = "crashed" /\ sessions' = <<>>
           ELSE pc' = "listed" /\ sessions' \in SortSlice(d.list)
    /\ root' = [k \in ProjectDirs |-> [root[k] EXCEPT !.mtime = now]]
    /\ UNCHANGED <<view, now, log, mtime, pid, verdict, ghosts, dir, cwd, signals, killed>>

\* Discover(): rootErr when the projects root cannot be determined or listed
DiscoverProjects(rootErr, access) ==
    /\ pc = "idle"
    /\ ret' = <<[op |-> "Discover", rootErr |-> rootErr, access |-> access]>>
    /\ LET d == DiscoverFrom(root, access, now, 1, <<>>)
       IN  IF rootErr THEN pc' = "failed" /\ sessions' = <<>>
           ELSE IF d.crashed THEN pc' = "crashed" /\ sessions' = <<>>
           ELSE pc' = "listed" /\ sessions' \in SortSlice(d.list)
    /\ UNCHANGED <<view, now, log, mtime, pid, verdict, ghosts, dir, cwd, root,
                   signals, killed>>

\* FindGhostProcesses() over the projects root
FindGhostsOfProjects(rootErr, access) ==
    /\ pc = "idle"
    /\ ret' = <<[op |-> "FindGhostProcesses", rootErr |-> rootErr, access |-> access]>>
    /\ LET d == DiscoverFrom(root, access, now, 1, <<>>)
       IN  IF rootErr THEN pc' = "failed" /\ sessions' = <<>> /\ ghosts' = <<>>
           ELSE IF d.crashed THEN pc' = "crashed" /\ sessions' = <<>> /\ ghosts' = <<>>
           ELSE /\ pc' = "ghosts"
                /\ sessions' \in SortSlice(d.list)
                /\ ghosts' = FilterGhosts(sessions', now)
    /\ UNCHANGED <<view, now, log, mtime, pid, verdict, dir, cwd, root, signals, killed>>

\* KillGhostProcesses(): gone are the pids whose process has exited by the
\* time it is signalled; a process that receives SIGTERM exits
KillGhostProcesses(rootErr, access, gone) ==
    /\ pc = "idle"
    /\ ret' = <<[op |-> "KillGhostProcesses", rootErr |-> rootErr, access |-> access]>>
    /\ LET d == DiscoverFrom(root, access, now, 1, <<>>)
       IN  IF rootErr \/ d.crashed
           THEN /\ pc' = IF rootErr THEN "failed" ELSE "crashed"
                /\ sessions' = <<>> /\ ghosts' = <<>>
                /\ signals' = <<>> /\ killed' = <<>>
                /\ root' = root
           ELSE /\ pc' = "killed"
                /\ sessions' \in SortSlice(d.list)
                /\ ghosts' = FilterGhosts(sessions', now)
                /\ signals' = SignalAll(ghosts', gone)
                /\ killed' = Killed(ghosts', signals')
                /\ root' = [k \in ProjectDirs |->
                               IF \E i \in 1..Len(signals') : signals'[i].PID = root[k].pid
                               THEN [root[k] EXCEPT !.pid = 0] ELSE root[k]]
    /\ UNCHANGED <<view, now, log, mtime, pid, verdict, dir, cwd>>

\* what the assistant appends to a project's log at clock reading t
ProjectLines(t) ==
    {JsonLine(AssistantText(t)), JsonLine(AssistantToolUse(t)), JsonLine(UserBare(t))}

Pids == {PidOf(k) : k \in ProjectDirs}

NextProjects ==
    \/ \E k \in ProjectDirs : \E line \in ProjectLines(now) : AppendTo(k, line)
    \/ \E k \in ProjectDirs : StartIn(k)
    \/ \E k \in ProjectDirs : ExitIn(k)
    \/ Tick(Epoch + WorkingWindow + GhostAge)
    \/ DiscoverProjects(TRUE, AllOk)
    \/ \E access \in [ProjectDirs -> Modes] : DiscoverProjects(FALSE, access)
    \/ \E rootErr \in BOOLEAN : FindGhostsOfProjects(rootErr, AllOk)
    \/ \E gone \in SUBSET Pids : KillGhostProcesses(FALSE, AllOk, gone)
    \/ Exit

SpecProjects == InitProjects /\ [][NextProjects]_vars

---------------------------------------------------------------------------
(* The kill-ghosts command, handleKillGhosts: FindGhostProcesses for the   *)
(* list it prints, then KillGhostProcesses, which discovers again.  Here   *)
(* cwd is the process table, the project key each assistant process runs   *)
(* in (<<>> when the process does not exist), and ret holds the command's  *)
(* position and the list it printed; the logs and the processes change     *)
(* between the two discoveries.                                            *)

MaxKillLines == 2

NoProcess == <<>>

\* getRunningClaudeDirs(): lsof reports one cwd row per process, ps lists
\* the processes by ascending pid, and dirs[encoded] = pid keeps the last
\* one listed for a key
getRunningClaudeDirs(procs) ==
    [k \in ProjectDirs |->
        LET here == {p \in DOMAIN procs : procs[p] = k}
        IN  IF here = {} THEN 0 ELSE CHOOSE p \in here : \A q \in here : q <= p]

\* the projects as one discovery pass sees them: runningDirs[projectName]
\* taken from the process table
AsListed(rt, procs) ==
    [k \in ProjectDirs |-> [rt[k] EXCEPT !.pid = getRunningClaudeDirs(procs)[k]]]

KillCommand(stage, announced) ==
    [op |-> "handleKillGhosts", stage |-> stage, announced |-> announced]

InitKill ==
    /\ InitMonitor
    /\ dir = <<>>
    /\ cwd = [p \in Pids |-> NoProcess]
    /\ root = [k \in ProjectDirs |-> ProjectState(<<>>, Epoch, 0)]

WriteTo(k, line) ==
    /\ pc = "idle"
    /\ TotalLines < MaxKillLines
    /\ root' = [root EXCEPT ![k].log = Append(@, line), ![k].mtime = now]
    /\ UNCHANGED <<view, now, log, mtime, pid, pc, sessions, verdict, ghosts,
                   ret, dir, cwd, signals, killed>>

\* an assistant process starts in project k
StartProcess(p, k) ==
    /\ pc = "idle"
    /\ cwd[p] = NoProcess
    /\ cwd' = [cwd EXCEPT ![p] = k]
    /\ UNCHANGED <<view, now, log, mtime, pid, pc, sessions, verdict, ghosts,
                   ret, dir, root, signals, killed>>

ExitProcess(p) ==
    /\ pc = "idle"
    /\ cwd[p] # NoProcess
    /\ cwd' = [cwd EXCEPT ![p] = NoProcess]
    /\ UNCHANGED <<view, now, log, mtime, pid, pc, sessions, verdict, ghosts,
                   ret, dir, root, signals, killed>>

\* handleKillGhosts up to the list it prints: os.Exit(1) on an error, the
\* return after "No ghost processes found.", or the ghosts printed
HandleKillGhostsFind(rootErr) ==
    /\ pc = "idle"
    /\ ret = <<>>
    /\ LET d == DiscoverFrom(AsListed(root, cwd), AllOk, now, 1, <<>>)
       IN  IF rootErr \/ d.crashed
           THEN /\ pc' = IF rootErr THEN "failed" ELSE "crashed"
                /\ sessions' = <<>> /\ ghosts' = <<>>
                /\ ret' = <<KillCommand("exit", <<>>)>>
           ELSE /\ sessions' \in SortSlice(d.list)
                /\ ghosts' = FilterGhosts(sessions', now)
                /\ IF ghosts' = <<>>
                   THEN pc' = "ended" /\ ret' = <<KillCommand("none", <<>>)>>
                   ELSE pc' = "idle" /\ ret' = <<KillCommand("announced", ghosts')>>
    /\ UNCHANGED <<view, now, log, mtime, pid, verdict, dir, cwd, root, signals, killed>>

\* the rest of handleKillGhosts: KillGhostProcesses() and the report; gone
\* are the processes that exit between its discovery and their signal, and
\* a process that receives SIGTERM exits
HandleKillGhostsKill(rootErr, gone) ==
    /\ pc = "idle"
    /\ ret # <<>>
    /\ ret[1].stage = "announced"
    /\ LET d == DiscoverFrom(AsListed(root, cwd), AllOk, now, 1, <<>>)
       IN  IF rootErr \/ d.crashed
           THEN /\ pc' = IF rootErr THEN "failed" ELSE "crashed"
                /\ sessions' = <<>> /\ ghosts' = <<>>
                /\ signals' = <<>> /\ killed' = <<>>
                /\ cwd' = cwd
                /\ ret' = <<KillCommand("exit", ret[1].announced)>>
           ELSE /\ pc' = "killed"
                /\ sessions' \in SortSlice(d.list)
                /\ ghosts' = FilterGhosts(sessions', now)
                /\ signals' = SignalAll(ghosts', gone)
                /\ killed' = Killed(ghosts', signals')
                /\ cwd' = [p \in Pids |->
                              IF p \in gone \/ \E i \in 1..Len(signals') : signals'[i].PID = p
                              THEN NoProcess ELSE cwd[p]]
                /\ ret' = <<KillCommand("killed", ret[1].announced)>>
    /\ UNCHANGED <<view, now, log, mtime, pid, verdict, dir, root>>

NextKill ==
    \/ \E k \in ProjectDirs : \E line \in ProjectLines(now) : WriteTo(k, line)
    \/ \E p \in Pids : \E k \in ProjectDirs : StartProcess(p, k)
    \/ \E p \in Pids : ExitProcess(p)
    \/ Tick(Epoch + WorkingWindow + GhostAge)
    \/ \E rootErr \in BOOLEAN : HandleKillGhostsFind(rootErr)
    \/ \E rootErr \in BOOLEAN : \E gone \in SUBSET Pids : HandleKillGhostsKill(rootErr, gone)
    \/ Exit

SpecKill == InitKill /\ [][NextKill]_vars

---------------------------------------------------------------------------
(* The polling loop, Watcher.Watch.  ret holds the call: at is "off"       *)
(* before it, "select" while the loop waits in its select, "returned"      *)
(* after the return and "crashed" after a panic; cancelled is ctx.Done()   *)
(* being closed, tickC the ticker's channel of capacity one holding the    *)
(* number of the tick it carries, fired the ticks the ticker has produced, *)
(* scans the discoveries made (tick 0 is the initial scan) and calls the   *)
(* ticks the callback was invoked for.  sessions is the list the callback  *)
(* received last.                                                          *)

MaxTicks == 2

\* the -interval values the watcher is made with
Intervals == {0, 2 * Second}

Watching(at, cancelled, fired, tickC, scans, calls, err) ==
    [op |-> "Watch", at |-> at, cancelled |-> cancelled, fired |-> fired,
     tickC |-> tickC, scans |-> scans, calls |-> calls, err |-> err]

Scan(tick, ok) == [tick |-> tick, ok |-> ok]

\* the error of a cancelled context
Canceled == "context canceled"

InitWatch ==
    /\ now = Epoch
    /\ log = <<>>
    /\ mtime = Epoch
    /\ pid = 0
    /\ pc = "idle"
    /\ sessions = <<>>
    /\ verdict = <<>>
    /\ ghosts = <<>>
    /\ ret = <<Watching("off", FALSE, 0, <<>>, <<>>, <<>>, "")>>
    /\ dir = <<>>
    /\ cwd = <<>>
    /\ root = [k \in ProjectDirs |-> ProjectState(<<>>, Epoch, 0)]
    /\ signals = <<>>
    /\ killed = <<>>
    /\ view = ViewOff

\* callback(sessions) after the discovery of a tick: `continue` skips it
\* when the discovery failed
callback(w, tick, ok) == IF ok THEN [w EXCEPT !.calls = Append(@, tick)] ELSE w

\* Watch(ctx, callback) up to its select: time.NewTicker panics when the
\* interval is not positive; the initial scan passes what Discover returned,
\* nil after an error, to the callback
Watch(interval, rootErr) ==
    /\ pc = "idle"
    /\ ret[1].at = "off"
    /\ LET w == ret[1]
           d == DiscoverFrom(root, AllOk, now, 1, <<>>)
       IN  IF interval <= 0 \/ (~rootErr /\ d.crashed)
           THEN /\ ret' = <<[w EXCEPT !.at = "crashed"]>>
                /\ pc' = "crashed"
                /\ sessions' = <<>>
           ELSE /\ ret' = <<[w EXCEPT !.at = "select",
                                      !.scans = <<Scan(0, ~rootErr)>>,
                                      !.calls = <<0>>]>>
                /\ pc' = "idle"
                /\ sessions' \in IF rootErr THEN {<<>>} ELSE SortSlice(d.list)
    /\ UNCHANGED <<view, now, log, mtime, pid, verdict, ghosts, dir, cwd, root,
                   signals, killed>>

\* the ticker produces a tick: it is dropped when the channel is full
TickerFires ==
    /\ pc = "idle"
    /\ ret[1].at = "select"
    /\ ret[1].fired < MaxTicks
    /\ ret' = <<[ret[1] EXCEPT !.fired = @ + 1,
                               !.tickC = IF @ = <<>> THEN <<ret[1].fired + 1>> ELSE @]>>
    /\ UNCHANGED <<view, now, log, mtime, pid, pc, sessions, verdict, ghosts,
                   dir, cwd, root, signals, killed>>

\* cancel() of the context, by the signal goroutine
Cancel ==
    /\ pc = "idle"
    /\ ~ret[1].cancelled
    /\ ret' = <<[ret[1] EXCEPT !.cancelled = TRUE]>>
    /\ UNCHANGED <<view, now, log, mtime, pid, pc, sessions, verdict, ghosts,
                   dir, cwd, root, signals, killed>>

\* case <-ticker.C
WatchTick(rootErr) ==
    /\ pc = "idle"
    /\ ret[1].at = "select"
    /\ ret[1].tickC # <<>>
    /\ LET tick == ret[1].tickC[1]
           d == DiscoverFrom(root, AllOk, now, 1, <<>>)
           w == [ret[1] EXCEPT !.tickC = <<>>]
       IN  IF ~rootErr /\ d.crashed
           THEN /\ ret' = <<[w EXCEPT !.at = "crashed"]>>
                /\ pc' = "crashed"
                /\ sessions' = sessions
           ELSE /\ ret' = <<callback([w EXCEPT !.scans = Append(@, Scan(tick, ~rootErr))],
                                     tick, ~rootErr)>>
                /\ pc' = "idle"
                /\ sessions' \in IF rootErr THEN {sessions} ELSE SortSlice(d.list)
    /\ UNCHANGED <<view, now, log, mtime, pid, verdict, ghosts, dir, cwd, root,
                   signals, killed>>

\* case <-ctx.Done(): return ctx.Err(), the deferred ticker.Stop() running
WatchDone ==
    /\ pc = "idle"
    /\ ret[1].at = "select"
    /\ ret[1].cancelled
    /\ ret' = <<[ret[1] EXCEPT !.at = "returned", !.err = Canceled]>>
    /\ pc' = "ended"
    /\ UNCHANGED <<view, now, log, mtime, pid, sessions, verdict, ghosts, dir,
                   cwd, root, signals, killed>>

NextWatch ==
    \/ \E line \in ProjectLines(now) : WriteTo(KeyP, line)
    \/ StartIn(KeyP)
    \/ ExitIn(KeyP)
    \/ Tick(Epoch + WorkingWindow + GhostAge)
    \/ \E interval \in Intervals : \E rootErr \in BOOLEAN : Watch(interval, rootErr)
    \/ TickerFires
    \/ Cancel
    \/ \E rootErr \in BOOLEAN : WatchTick(rootErr)
    \/ WatchDone

SpecWatch == InitWatch /\ [][NextWatch]_vars

\* the select of Watch chooses among its ready cases at random, so a case
\* that stays ready is taken in the end
SpecWatchFair == SpecWatch /\ WF_vars(WatchDone)

---------------------------------------------------------------------------
(* The task text on its own: a session file whose first line is an         *)
(* assistant entry with text of every length around the 50-character cut,  *)
(* with and without a line break, classified by determineStatus.           *)

MaxFirstLine == 52

MoreText == <<"m", "o", "r", "e">>

\* text of n characters without a line break
Run(n) == [i \in 1..n |-> "x"]

\* a first line of up to MaxFirstLine characters, alone or followed by a
\* line break and more text
TaskTexts ==
    {Run(n) : n \in 1..MaxFirstLine}
        \cup {Run(n) \o <<Newline>> \o MoreText : n \in 0..MaxFirstLine}

\* the content of an assistant message: one text item, an empty text item
\* before it, or no text at all
TaskContents ==
    {<<TextItem(text)>> : text \in TaskTexts}
        \cup {<<TextItem(EmptyString), TextItem(text)>> : text \in {Run(3), Run(MaxFirstLine)}}
        \cup {<<>>, <<TextItem(EmptyString)>>}

AssistantSays(content, ts) == LogEntry("assistant", "", ts, <<Message(content, <<>>)>>)

\* the session file is created with its first line
FirstLine(line) ==
    /\ pc = "idle"
    /\ log = <<>>
    /\ log' = <<line>>
    /\ mtime' = now
    /\ UNCHANGED <<now, pid, pc, sessions, verdict, ghosts>>
    /\ UNCHANGED others

NextTask ==
    \/ \E content \in TaskContents : FirstLine(JsonLine(AssistantSays(content, now)))
    \/ \E p \in AssistantPids : ProcStart(p)
    \/ ProcExit
    \/ Classify
    \/ Exit

SpecTask == Init /\ [][NextTask]_vars

---------------------------------------------------------------------------
(* The session table of the live view: the column widths for a terminal    *)
(* width, and truncate, which fits a cell's text into its column.          *)

MaxWidth == 140

MaxCell == 6

fixedStatusWidth == 14

fixedContextWidth == 16

fixedActivityWidth == 15

minProjectWidth == 15

prefProjectWidth == 35

minMessageWidth == 10

prefMessageWidth == 40

sessionLayout(status, project, context, activity, message, showMessage) ==
    [status |-> status, project |-> project, context |-> context,
     activity |-> activity, message |-> message, showMessage |-> showMessage,
     totalWidth |-> status + project + context + activity
                        + (IF showMessage THEN message ELSE 0)]

\* calcSessionLayout with the message column capped and the overflow dropped
calcSessionLayoutOverflowDropped(width) ==
    LET fixed == fixedStatusWidth + fixedContextWidth + fixedActivityWidth
        remaining == width - fixed
        minBoth == minProjectWidth + minMessageWidth
        capped == IF prefProjectWidth > remaining - minMessageWidth
                  THEN remaining - minMessageWidth ELSE prefProjectWidth
        project == IF capped < minProjectWidth THEN minProjectWidth ELSE capped
        message == remaining - project
    IN  IF remaining >= minBoth
        THEN IF message > prefMessageWidth
             THEN sessionLayout(fixedStatusWidth, project, fixedContextWidth,
                                fixedActivityWidth, prefMessageWidth, TRUE)
             ELSE sessionLayout(fixedStatusWidth, project, fixedContextWidth,
                                fixedActivityWidth, message, TRUE)
        ELSE sessionLayout(fixedStatusWidth, IF remaining < 1 THEN 1 ELSE remaining,
                           fixedContextWidth, fixedActivityWidth, 0, FALSE)

calcSessionLayout(width) ==
    LET fixed == fixedStatusWidth + fixedContextWidth + fixedActivityWidth
        remaining == width - fixed
        minBoth == minProjectWidth + minMessageWidth
        capped == IF prefProjectWidth > remaining - minMessageWidth
                  THEN remaining - minMessageWidth ELSE prefProjectWidth
        project == IF capped < minProjectWidth THEN minProjectWidth ELSE capped
        message == remaining - project
    IN  IF remaining >= minBoth
        THEN IF message > prefMessageWidth
             THEN sessionLayout(fixedStatusWidth, project + (message - prefMessageWidth),
                                fixedContextWidth, fixedActivityWidth,
                                prefMessageWidth, TRUE)
             ELSE sessionLayout(fixedStatusWidth, project, fixedContextWidth,
                                fixedActivityWidth, message, TRUE)
        ELSE sessionLayout(fixedStatusWidth, IF remaining < 1 THEN 1 ELSE remaining,
                           fixedContextWidth, fixedActivityWidth, 0, FALSE)

\* truncate(s, max): <<t>> when it returns t, <<>> when the slice expression
\* s[:max] panics on a negative bound
truncate(s, max) ==
    IF Len(s) <= max THEN <<s>>
    ELSE IF max <= 3
    THEN IF max < 0 THEN <<>> ELSE <<SubSeq(s, 1, max)>>
    ELSE <<SubSeq(s, 1, max - 3) \o Ellipsis>>

\* the widths a terminal reports
Widths == 0..MaxWidth

\* the texts of a cell
Cells == {Run(n) : n \in 0..MaxCell}

\* the room left for a cell's text: a column width less the badges that
\* follow the text
Rooms == (0 - 2)..(MaxCell + 1)

CalcSessionLayout(width) ==
    /\ pc = "idle"
    /\ ret' = <<[op |-> "calcSessionLayout", width |-> width,
                 out |-> calcSessionLayout(width)]>>
    /\ pc' = "laid"
    /\ UNCHANGED <<view, now, log, mtime, pid, sessions, verdict, ghosts,
                   dir, cwd, root, signals, killed>>

Truncate(s, max) ==
    /\ pc = "idle"
    /\ LET out == truncate(s, max)
       IN  /\ ret' = <<[op |-> "truncate", s |-> s, max |-> max, out |-> out]>>
           /\ pc' = IF out = <<>> THEN "crashed" ELSE "truncated"
    /\ UNCHANGED <<view, now, log, mtime, pid, sessions, verdict, ghosts,
                   dir, cwd, root, signals, killed>>

NextLayout ==
    \/ \E width \in Widths : CalcSessionLayout(width)
    \/ \E s \in Cells, max \in Rooms : Truncate(s, max)
    \/ Exit

SpecLayout == Init /\ [][NextLayout]_vars

---------------------------------------------------------------------------
(* The live view over one project: keys arrive through keyCh, signals      *)
(* through sigCh, the ticker fires, and the assistant writes its log       *)
(* while the loop runs.  The clock stays at its start.                     *)

Keys == {Key_h, Key_H, Key_l, Key_L, Key_q, KeyEsc, CtrlC}

ViewLines(t) == {JsonLine(AssistantToolUse(ZeroTime)), JsonLine(UserBare(t))}

\* runLiveView up to the first select; rawOk is whether term.MakeRaw worked
RunLiveView(rawOk) ==
    /\ pc = "idle"
    /\ view.state = "off"
    /\ LET out == parseSession(log, mtime, pid, now)
           started == [ViewOff EXCEPT !.state = "loop", !.raw = TRUE,
                                      !.cursorHidden = TRUE,
                                      !.last = Event("start", 0, FALSE)]
       IN  IF ~rawOk
           THEN /\ view' = [ViewOff EXCEPT !.state = "ended"]
                /\ pc' = "failed"
                /\ UNCHANGED sessions
           ELSE /\ view' = render(started, out # <<>>)
                /\ pc' = PcOf(view'.state)
                /\ sessions' = out
    /\ UNCHANGED <<now, log, mtime, pid, verdict, ghosts,
                   ret, dir, cwd, root, signals, killed>>

\* the goroutine ReadKey passes one byte of stdin to keyCh
ReadKey(k) ==
    /\ pc = "idle"
    /\ view.state = "loop" /\ ~view.done
    /\ view.keyCh = <<>>
    /\ view' = [view EXCEPT !.keyCh = <<k>>]
    /\ UNCHANGED <<now, log, mtime, pid, pc, sessions, verdict, ghosts,
                   ret, dir, cwd, root, signals, killed>>

\* SIGINT or SIGTERM is delivered to sigCh
Notify ==
    /\ pc = "idle"
    /\ view.state = "loop"
    /\ ~view.sigCh
    /\ view' = [view EXCEPT !.sigCh = TRUE]
    /\ UNCHANGED <<now, log, mtime, pid, pc, sessions, verdict, ghosts,
                   ret, dir, cwd, root, signals, killed>>

\* case <-sigCh
LiveSignal ==
    /\ pc = "idle"
    /\ view.state = "loop"
    /\ view.sigCh
    /\ view' = Returned([view EXCEPT !.sigCh = FALSE, !.last = Event("signal", 0, FALSE)])
    /\ pc' = "ended"
    /\ UNCHANGED <<now, log, mtime, pid, sessions, verdict, ghosts,
                   ret, dir, cwd, root, signals, killed>>

\* case key := <-keyCh
LiveKey(k) ==
    /\ pc = "idle"
    /\ view.state = "loop"
    /\ view.keyCh = <<k>>
    /\ LET out == parseSession(log, mtime, pid, now)
           v == [view EXCEPT !.keyCh = <<>>, !.last = Event("key", k, FALSE)]
       IN  /\ view' = handleKey(v, k, out # <<>>)
           /\ pc' = PcOf(view'.state)
           /\ sessions' = IF k \in {Key_l, Key_L} /\ view.mode # ViewModeLive
                          THEN out ELSE sessions
    /\ UNCHANGED <<now, log, mtime, pid, verdict, ghosts,
                   ret, dir, cwd, root, signals, killed>>

\* case <-ticker.C
LiveTick ==
    /\ pc = "idle"
    /\ view.state = "loop"
    /\ LET out == parseSession(log, mtime, pid, now)
       IN  /\ view' = render([view EXCEPT !.last = Event("tick", 0, FALSE)], out # <<>>)
           /\ pc' = PcOf(view'.state)
           /\ sessions' = IF view.mode = ViewModeLive THEN out ELSE sessions
    /\ UNCHANGED <<now, log, mtime, pid, verdict, ghosts,
                   ret, dir, cwd, root, signals, killed>>

NextView ==
    \/ \E line \in ViewLines(now) : AppendLine(line)
    \/ \E p \in AssistantPids : ProcStart(p)
    \/ ProcExit
    \/ \E rawOk \in BOOLEAN : RunLiveView(rawOk)
    \/ \E k \in Keys : ReadKey(k)
    \/ Notify
    \/ LiveSignal
    \/ \E k \in Keys : LiveKey(k)
    \/ LiveTick
    \/ Exit

SpecView == Init /\ [][NextView]_vars

---------------------------------------------------------------------------
(* Vocabulary of the properties, stated on the log itself.                  *)

Entries == readLastEntries(log, ReadCount).entries

Running == pid # 0

\* determineStatus was applied and verdict holds its outcome
Called == verdict # <<>>

\* a discovery pass (Discover or FindGhostProcesses) returned its sessions
Listed == pc \in {"listed", "ghosts"}

LastIndexOfType(es, type) ==
    LET S == {i \in 1..Len(es) : es[i].Type = type}
    IN  IF S = {} THEN 0 ELSE CHOOSE i \in S : \A j \in S : j <= i

Carries(e, type) ==
    /\ e.Message # <<>>
    /\ \E k \in 1..Len(e.Message[1].Content) : e.Message[1].Content[k].Type = type

FirstToolName(e) ==
    LET c == e.Message[1].Content
        k == CHOOSE i \in 1..Len(c) :
                 c[i].Type = "tool_use" /\ \A j \in 1..(i - 1) : c[j].Type # "tool_use"
    IN  c[k].Name

\* the most recent assistant entry of the tail contains a tool_use item
LastAssistantUsesTool ==
    LET la == LastIndexOfType(Entries, "assistant")
    IN  la # 0 /\ Carries(Entries[la], "tool_use")

\* the user entries carrying a tool_result stamped later than the last
\* assistant entry, among the entries at positions in range
LaterToolResults(range) ==
    LET la == LastIndexOfType(Entries, "assistant")
    IN  IF la = 0 THEN {}
        ELSE {i \in range : /\ Entries[i].Type = "user"
                            /\ Carries(Entries[i], "tool_result")
                            /\ Entries[i].Timestamp > Entries[la].Timestamp}

---------------------------------------------------------------------------
(* C1: for a running session whose most recent assistant entry contains a  *)
(* tool_use item and for which no user entry of the tail carries a         *)
(* tool_result with a later timestamp, determineStatus returns NeedsInput  *)
(* with task "Using: " + tool name, at every reading of the clock.         *)
C1_PendingToolUseIsNeedsInput ==
    (Called /\ Running /\ LastAssistantUsesTool
        /\ LaterToolResults(1..Len(Entries)) = {})
    => verdict[1] = Result(StatusNeedsInput,
                           UsingPrefix \o
                               FirstToolName(Entries[LastIndexOfType(Entries, "assistant")]),
                           FALSE)

(* C2: with isRunning = false determineStatus returns Inactive, task "-",  *)
(* ghost false, for every entry sequence.                                  *)
C2_NotRunningIsInactive ==
    (Called /\ ~Running) => verdict[1] = Result(StatusInactive, Dash, FALSE)

\* determineStatus was applied with isRunning = false to a tail whose last
\* assistant entry has a pending tool_use
C2_Witness ==
    /\ Called /\ ~Running /\ LastAssistantUsesTool
    /\ LaterToolResults(1..Len(Entries)) = {}
    /\ verdict[1].status = StatusInactive

(* C3: for a running session whose most recent assistant entry contains a  *)
(* tool_use item, the status is NeedsInput if and only if no user entry    *)
(* after that assistant entry carries a tool_result with a later           *)
(* timestamp.  This is the "only if" half: when such a user entry exists,  *)
(* also when a further user entry without tool_result follows it, the      *)
(* status is not NeedsInput.                                               *)
C3_ToolResultEndsNeedsInput ==
    LET la == LastIndexOfType(Entries, "assistant")
    IN  (Called /\ Running /\ LastAssistantUsesTool
            /\ LaterToolResults((la + 1)..Len(Entries)) # {})
        => verdict[1].status # StatusNeedsInput

(* C4: for a running session whose most recent assistant entry contains a  *)
(* tool_use and for which a user tool_result with a later timestamp        *)
(* exists, determineStatus returns Waiting, task "-", when a turn_duration *)
(* system entry is stamped later than that tool_result, and Working, task  *)
(* "Processing...", otherwise.                                             *)
C4_AnsweredToolUse ==
    LET rs == LaterToolResults(1..Len(Entries))
        r == CHOOSE i \in rs : \A j \in rs : j <= i
        turnEnded == \E i \in 1..Len(Entries) :
                         /\ Entries[i].Type = "system"
                         /\ Entries[i].Subtype = "turn_duration"
                         /\ Entries[i].Timestamp > Entries[r].Timestamp
    IN  (Called /\ Running /\ LastAssistantUsesTool /\ rs # {})
        => verdict[1] = IF turnEnded THEN Result(StatusWaiting, Dash, FALSE)
                        ELSE Result(StatusWorking, ProcessingTask, FALSE)

(* C5: a discovery pass reports a project whose log yields zero parsed     *)
(* entries as Waiting when its process is running and as Inactive when it  *)
(* is not.                                                                 *)
C5_EmptyLogRunningIsWaiting ==
    (pc = "listed" /\ Len(Entries) = 0)
    => /\ Len(sessions) = 1
       /\ sessions[1].Status = IF Running THEN StatusWaiting ELSE StatusInactive

(* C6 as stated: two calls of determineStatus with the same entries and    *)
(* the same running flag return the same triple whatever the wall-clock    *)
(* time of each call: a call at any later reading of the clock returns     *)
(* what the recorded call returned.                                        *)
C6_SameResultAtAnyClock ==
    Called => \A t \in Instants :
                  t >= now => determineStatus(Entries, Running, t) = verdict[1]

\* the cases determineStatus decides without reading the clock: no
\* entries, not running, or a last assistant entry with a tool_use item
ClockFree == Len(Entries) = 0 \/ ~Running \/ LastAssistantUsesTool

(* C6 as amended: determineStatus is a function of the entries, the        *)
(* running flag and the clock reading; in the clock-free cases two calls   *)
(* with the same two arguments return the same triple at any two clock     *)
(* readings.                                                               *)
C6_ClockFreeCases ==
    (Called /\ ClockFree)
    => \A t \in Instants : determineStatus(Entries, Running, t) = verdict[1]

\* a call on a running session with a pending tool_use whose newest
\* timestamp is older than the 5-minute threshold
C6_Witness ==
    /\ Called /\ Running /\ LastAssistantUsesTool
    /\ verdict[1].status = StatusNeedsInput
    /\ \E i \in 1..Len(Entries) : Entries[i].Timestamp # ZeroTime
    /\ \A i \in 1..Len(Entries) : now - Entries[i].Timestamp > 5 * 60

---------------------------------------------------------------------------
(* Context usage, stated on the tail.                                       *)

IsCompaction(e) ==
    e.Type = "system" /\ e.Subtype \in {"compact_boundary", "microcompact_boundary"}

\* position of the last compaction boundary of es, 0 if there is none
BoundaryAt(es) ==
    LET S == {i \in 1..Len(es) : IsCompaction(es[i])}
    IN  IF S = {} THEN 0 ELSE CHOOSE i \in S : \A j \in S : j <= i

InputSide(e) ==
    LET u == e.Message[1].Usage[1]
    IN  u.InputTokens + u.CacheCreationInputTokens + u.CacheReadInputTokens

\* assistant entries with usage data whose input-side total is not zero
HasUsage(e) ==
    /\ e.Type = "assistant" /\ e.Message # <<>> /\ e.Message[1].Usage # <<>>
    /\ InputSide(e) # 0

\* the (percent, tokens) pair the listed session shows
Shown == ContextUsage(sessions[1].ContextPercent, sessions[1].ContextTokens)

(* C7: extractContextUsage depends only on the entries after the last      *)
(* compaction boundary: removing the entries up to the boundary, replacing *)
(* any entry before it by a usage record, or inserting a usage record      *)
(* before it, leaves the result unchanged; and a boundary with no later    *)
(* assistant usage entry yields (0, 0).                                    *)
C7_OnlyAfterBoundary ==
    LET es == Entries
        b == BoundaryAt(es)
        alt == {AssistantUsage(now, u) : u \in UsageRecords}
    IN  (pc = "listed" /\ Len(es) > 0 /\ b # 0)
        => /\ Shown = extractContextUsage(SubSeq(es, b + 1, Len(es)))
           /\ \A i \in 1..(b - 1) : \A e \in alt :
                  Shown = extractContextUsage([es EXCEPT ![i] = e])
           /\ \A i \in 0..(b - 1) : \A e \in alt :
                  Shown = extractContextUsage(SubSeq(es, 1, i) \o <<e>>
                                                  \o SubSeq(es, i + 1, Len(es)))
           /\ (~\E i \in (b + 1)..Len(es) : HasUsage(es[i]))
                  => Shown = ContextUsage(Percent(0), 0)

\* a listed log with a usage record on each side of a microcompact boundary
C7_Witness ==
    LET es == Entries
        b == BoundaryAt(es)
    IN  /\ pc = "listed" /\ b # 0
        /\ es[b].Subtype = "microcompact_boundary"
        /\ \E i \in 1..(b - 1) : HasUsage(es[i])
        /\ sessions[1].ContextTokens = 0

(* C8: when an assistant entry with usage data exists after the last       *)
(* boundary, tokens is inputTokens + cacheCreationInputTokens +            *)
(* cacheReadInputTokens of the most recent such entry alone and percent is *)
(* tokens / 200000 * 100; otherwise the result is (0, 0).                  *)
C8_MostRecentUsage ==
    LET es == Entries
        Q == {i \in (BoundaryAt(es) + 1)..Len(es) : HasUsage(es[i])}
        q == CHOOSE i \in Q : \A j \in Q : j <= i
    IN  (pc = "listed" /\ Len(es) > 0)
        => IF Q = {}
           THEN Shown.tokens = 0 /\ Shown.percent.num = 0 /\ Shown.percent.den # 0
           ELSE /\ Shown.tokens = InputSide(es[q])
                /\ Shown.percent.num = Shown.tokens * 100
                /\ Shown.percent.den = 200000

\* two usage records with different totals after the boundary, the newer shown
C8_Witness ==
    LET es == Entries
        Q == {i \in (BoundaryAt(es) + 1)..Len(es) : HasUsage(es[i])}
    IN  /\ pc = "listed"
        /\ \E i, j \in Q : i < j /\ InputSide(es[i]) > InputSide(es[j])
        /\ sessions[1].ContextTokens = 5 + 500 + 9500

---------------------------------------------------------------------------
(* C9: every Session a discovery pass produces with status Inactive has    *)
(* ghostPid = 0 and isGhost = false.                                       *)
C9_InactiveHasNoPid ==
    \A i \in 1..Len(sessions) :
        sessions[i].Status = StatusInactive
        => sessions[i].GhostPID = 0 /\ sessions[i].IsGhost = FALSE

\* a pass over a project whose process runs and that is reported Inactive
C9_Witness ==
    /\ Listed /\ Running
    /\ Len(sessions) = 1 /\ sessions[1].Status = StatusInactive

(* C10: FindGhostProcesses returns a session as a ghost if and only if its *)
(* ghostPid is greater than 0 and now minus its lastActivity is strictly   *)
(* greater than 1 hour.                                                    *)
C10_GhostIffPidAndOverAnHour ==
    pc = "ghosts"
    => /\ \A i \in 1..Len(sessions) :
              (\E k \in 1..Len(ghosts) :
                   /\ ghosts[k].PID = sessions[i].GhostPID
                   /\ ghosts[k].Age = now - sessions[i].LastActivity)
              <=> (sessions[i].GhostPID > 0 /\ now - sessions[i].LastActivity > 3600)
       /\ Len(ghosts) <= Len(sessions)

\* a running session last active 1 h 30 s ago is returned as a ghost
C10_Witness ==
    /\ pc = "ghosts" /\ Len(ghosts) = 1
    /\ ghosts[1].Age = 3630 /\ ghosts[1].PID > 0

---------------------------------------------------------------------------
(* The log reader, stated on the lines of the file.                         *)

\* the entries of the well-formed lines of the file, in file order
WellFormed(lines) ==
    LET IsJson(line) == line.text = "json"
        json == SelectSeq(lines, IsJson)
    IN  [i \in 1..Len(json) |-> json[i].entry]

LastN(es, n) == IF Len(es) > n THEN SubSeq(es, Len(es) - n + 1, Len(es)) ELSE es

(* C12: readLastEntries(path, n) returns exactly the last n well-formed    *)
(* entries of the file in file order, all of them when there are fewer     *)
(* than n; blank lines and lines that do not parse change nothing; a file  *)
(* with no entry gives the empty sequence and no error.                    *)
C12_LastParsedEntries ==
    pc = "read"
    => /\ ret[1].entries = LastN(WellFormed(log), ret[1].count)
       /\ WellFormed(log) = <<>> => (ret[1].entries = <<>> /\ ~ret[1].err)

\* the texts of the summary entries of the file that carry a text
SummaryTextsOf(lines) ==
    LET IsSummary(e) == e.Type = "summary" /\ e.Summary # EmptyString
    IN  SelectSeq(WellFormed(lines), IsSummary)

(* C13: extractSummary returns the text of the last summary entry found    *)
(* anywhere in the file, and the empty string when the file has none.      *)
C13_LastSummaryOfFile ==
    LET found == SummaryTextsOf(log)
    IN  pc = "summarised"
        => ret[1] = IF found = <<>> THEN EmptyString ELSE found[Len(found)].Summary

---------------------------------------------------------------------------
(* The choice of the log file, stated on the files of the directory.       *)

\* the files that can be the project's log: regular, named *.jsonl, not a
\* sub-agent log, and still there when their metadata is read
Candidates ==
    {f \in dir : /\ ~f.IsDir
                 /\ HasSuffix(f.Name, JsonlSuffix)
                 /\ ~HasPrefix(f.Name, AgentPrefix)
                 /\ f.Name \notin ret[1].gone}

Newest(files) == {f \in files : \A g \in files : g.ModTime <= f.ModTime}

(* C14: findMostRecentLog selects a most recently modified non-empty       *)
(* candidate, unless an empty candidate is strictly newer than every       *)
(* non-empty one, and then a newest empty candidate is selected; a         *)
(* sub-agent log, a file not named *.jsonl or a subdirectory is never      *)
(* selected, and with no candidate the result is "" (no session).          *)
C14_NewestLogSelected ==
    LET nonEmpty == {f \in Candidates : f.Size > 0}
        empty == {f \in Candidates : f.Size = 0}
        chosen == ret[1].logFile
        newerEmpty == {e \in empty : \A f \in nonEmpty : e.ModTime > f.ModTime}
    IN  pc = "found"
        => /\ Candidates = {} => chosen = EmptyString
           /\ Candidates # {} => chosen \in {f.Name : f \in Candidates}
           /\ newerEmpty # {} => chosen \in {f.Name : f \in Newest(empty)}
           /\ (newerEmpty = {} /\ nonEmpty # {})
                  => chosen \in {f.Name : f \in Newest(nonEmpty)}

\* an empty log newer than a non-empty one is selected, while a sub-agent
\* log newer than both is in the directory
C14_Witness ==
    /\ pc = "found"
    /\ \E e, f, a \in dir :
           /\ e.Name = ret[1].logFile /\ e.Size = 0
           /\ f \in Candidates /\ f.Size > 0 /\ f.ModTime < e.ModTime
           /\ HasPrefix(a.Name, AgentPrefix) /\ a.Size > 0 /\ a.ModTime > e.ModTime

---------------------------------------------------------------------------
(* The path codec, stated on the components of the working directory.      *)

Has(s, c) == \E i \in 1..Len(s) : s[i] = c

\* no literal dot in the path, no dash in its final two components
Unambiguous ==
    /\ \A i \in 1..Len(cwd) : ~Has(cwd[i], Dot)
    /\ \A i \in (Len(cwd) - 1)..Len(cwd) : ~Has(cwd[i], DashChar)

\* org/project, of the final two components
OrgProject == cwd[Len(cwd) - 1] \o <<Slash>> \o cwd[Len(cwd)]

ProjectsName == <<"P", "r", "o", "j", "e", "c", "t", "s">>

\* the layouts the decoder recovers: /org/project; /Users/name/org/project
\* with a dash-free name and org not "Projects"; and q/Projects/org/project
\* with q not empty and no earlier component "Projects" after the first
Recoverable ==
    LET n == Len(cwd)
    IN  \/ n = 2
        \/ /\ n = 4 /\ cwd[1] = UsersName
           /\ ~Has(cwd[2], DashChar) /\ cwd[3] # ProjectsName
        \/ /\ n >= 4 /\ cwd[n - 2] = ProjectsName
           /\ \A j \in 2..(n - 3) : cwd[j] # ProjectsName

(* C17 as stated: for every path with no dot and no dash in its final two  *)
(* components, decoding the encoded path yields org/project.               *)
C17_RoundTripAnyDepth ==
    (pc = "decoded" /\ Unambiguous) => ret[1].label = OrgProject

(* C17 as amended: for such a path the decoder yields org/project exactly  *)
(* when the path has one of the recoverable layouts.                       *)
C17_RoundTripRecoverable ==
    (pc = "decoded" /\ Unambiguous) => (ret[1].label = OrgProject <=> Recoverable)

\* /Users/a-b/Projects/o/p is decoded to o/p
C17_Witness ==
    /\ pc = "decoded" /\ Unambiguous
    /\ Len(cwd) = 5 /\ cwd[1] = UsersName /\ Has(cwd[2], DashChar)
    /\ cwd[3] = ProjectsName
    /\ ret[1].label = <<"o", "/", "p">>

---------------------------------------------------------------------------
(* C19 as stated: every Session a discovery pass returns has a             *)
(* contextPercent from 0 to 100 inclusive.                                 *)
C19_PercentWithin100 ==
    Listed => \A i \in 1..Len(sessions) :
                  /\ sessions[i].ContextPercent.num >= 0
                  /\ sessions[i].ContextPercent.num <= 100 * sessions[i].ContextPercent.den

(* C19 as amended: contextPercent is contextTokens / 200000 * 100, never   *)
(* negative and not capped: it is above 100 exactly when the usage record  *)
(* shown holds more than 200000 input-side tokens.                         *)
C19_PercentUncapped ==
    Listed => \A i \in 1..Len(sessions) :
                  LET s == sessions[i]
                  IN  /\ s.ContextPercent.num = s.ContextTokens * 100
                      /\ s.ContextPercent.den = 200000
                      /\ s.ContextPercent.num >= 0
                      /\ (s.ContextPercent.num > 100 * s.ContextPercent.den
                             <=> s.ContextTokens > 200000)

\* a session listed with 250010 tokens, 125 percent of the window
C19_Witness ==
    /\ pc = "listed" /\ Len(sessions) = 1
    /\ sessions[1].ContextTokens = 10 + 1000 + 249000
    /\ sessions[1].ContextPercent.num = 125 * 200000 + 1000

(* C20: every Session a discovery pass returns with contextTokens = 0 has  *)
(* contextPercent = 0.                                                     *)
C20_NoTokensNoPercent ==
    Listed => \A i \in 1..Len(sessions) :
                  sessions[i].ContextTokens = 0 => sessions[i].ContextPercent.num = 0

\* the newest record after the boundary has a zero input side and output
\* tokens, and the session is listed without context usage
C20_Witness ==
    LET es == Entries
    IN  /\ pc = "listed" /\ Len(es) > 0
        /\ es[Len(es)].Type = "assistant"
        /\ es[Len(es)].Message[1].Usage # <<>>
        /\ es[Len(es)].Message[1].Usage[1].OutputTokens > 0
        /\ InputSide(es[Len(es)]) = 0
        /\ sessions[1].ContextTokens = 0

---------------------------------------------------------------------------
(* Discovery over the projects root and the ghost-kill path.               *)

\* the sessions a pass assembles, before sorting, for the answers recorded
Assembled == DiscoverFrom(root, ret[1].access, now, 1, <<>>).list

Rank(status) ==
    CASE status = "Working" -> 0
      [] status = "Needs Input" -> 1
      [] status = "Waiting" -> 2
      [] status = "Inactive" -> 4

(* C11: KillGhostProcesses sends one termination signal per ghost found,   *)
(* in order, whatever the outcome of the earlier ones; the killed list it  *)
(* returns, without error, holds exactly the ghosts whose signal           *)
(* succeeded.                                                              *)
C11_KilledAreTheSignalled ==
    pc = "killed"
    => /\ Len(signals) = Len(ghosts)
       /\ \A i \in 1..Len(ghosts) : signals[i].PID = ghosts[i].PID
       /\ \A i \in 1..Len(ghosts) :
              signals[i].ok <=> \E j \in 1..Len(killed) : killed[j] = ghosts[i]
       /\ \A j \in 1..Len(killed) : \E i \in 1..Len(ghosts) : ghosts[i] = killed[j]
       /\ Len(killed) = Cardinality({i \in 1..Len(signals) : signals[i].ok})

\* two ghosts: the signal to the first fails, the second is still
\* signalled and is the only one returned
C11_Witness ==
    /\ pc = "killed" /\ Len(ghosts) = 2
    /\ ~signals[1].ok /\ signals[2].ok
    /\ killed = <<ghosts[2]>>

(* C15: the list Discover returns is a permutation of the assembled        *)
(* sessions, one per project, ordered by status priority (Working,         *)
(* NeedsInput, Waiting, Inactive) and, within a priority, by lastActivity  *)
(* with the most recent first.                                             *)
C15_SortedPermutation ==
    pc = "listed"
    => /\ Len(sessions) = Len(Assembled)
       /\ \A i \in 1..Len(Assembled) :
              Cardinality({j \in 1..Len(sessions) : sessions[j] = Assembled[i]}) = 1
       /\ \A i, j \in 1..Len(sessions) :
              i < j => /\ Rank(sessions[i].Status) <= Rank(sessions[j].Status)
                       /\ Rank(sessions[i].Status) = Rank(sessions[j].Status)
                              => sessions[i].LastActivity >= sessions[j].LastActivity

\* two sessions of the same status: the directory listed second, active
\* more recently, is returned first
C15_Witness ==
    /\ pc = "listed" /\ Len(sessions) = 2
    /\ sessions[1].ProjectPath = KeyQ /\ sessions[2].ProjectPath = KeyP
    /\ sessions[1].Status = sessions[2].Status
    /\ sessions[1].LastActivity > sessions[2].LastActivity

(* C16: Discover fails as a whole only when the projects root cannot be    *)
(* determined or listed; otherwise it returns a list in which a project    *)
(* whose directory cannot be listed or whose log cannot be stat'd is       *)
(* absent and every other project has the session it has when read on its *)
(* own.                                                                    *)
C16_OnlyRootFailureIsFatal ==
    LET SessionOf(list, k) == {list[i] : i \in {j \in 1..Len(list) : list[j].ProjectPath = k}}
        Alone(k) == LET out == IF ret[1].access[k] = "noread"
                                   THEN parseUnreadable(k, root[k])
                                   ELSE parseProject(k, root[k], now)
                    IN  {out[i] : i \in 1..Len(out)}
    IN  (ret # <<>> /\ ret[1].op = "Discover")
        => /\ pc = "failed" <=> ret[1].rootErr
           /\ ~ret[1].rootErr
                  => /\ pc = "listed"
                     /\ \A k \in ProjectDirs :
                            IF ret[1].access[k] \in {"nolist", "nostat"}
                            THEN SessionOf(sessions, k) = {}
                            ELSE /\ Cardinality(SessionOf(sessions, k)) = 1
                                 /\ SessionOf(sessions, k) = Alone(k)

---------------------------------------------------------------------------
(* C21: every session a discovery pass returns, and every triple           *)
(* determineStatus returns, has one of the statuses Working, NeedsInput,   *)
(* Waiting and Inactive; Idle is never assigned.                           *)
C21_StatusOfFour ==
    LET Four == {"Working", "Needs Input", "Waiting", "Inactive"}
    IN  /\ Listed => \A i \in 1..Len(sessions) : sessions[i].Status \in Four
        /\ (Called /\ verdict[1] # Panic) => verdict[1].status \in Four

\* a pass listed the session of a running process whose log ends in a
\* completed turn
C21_Witness ==
    /\ Listed /\ Len(sessions) = 1 /\ Running
    /\ LastIndexOfType(Entries, "system") > LastIndexOfType(Entries, "assistant")
    /\ LastIndexOfType(Entries, "assistant") > 0
    /\ sessions[1].Status = "Waiting"

(* C22 as stated: lastActivity is the more recent of the file's            *)
(* modification time and the last entry timestamp, never earlier than the  *)
(* modification time nor than any non-zero timestamp of the tail.          *)
C22_LastActivityMostRecent ==
    Listed =>
        /\ sessions[1].LastActivity >= mtime
        /\ \A i \in 1..Len(Entries) :
               ~IsZero(Entries[i].Timestamp)
                   => sessions[1].LastActivity >= Entries[i].Timestamp

(* C22: lastActivity is the timestamp of the last entry of the tail that   *)
(* has a non-zero timestamp, and the file's modification time when the     *)
(* tail has no such entry.                                                 *)
C22_LastActivityIsLastStamp ==
    LET S == {i \in 1..Len(Entries) : ~IsZero(Entries[i].Timestamp)}
        last == CHOOSE i \in S : \A j \in S : j <= i
    IN  Listed => sessions[1].LastActivity =
                      IF S = {} THEN mtime ELSE Entries[last].Timestamp

\* a pass listed a session whose file was written after its last stamped
\* entry: lastActivity is earlier than the modification time
C22_Witness ==
    /\ Listed /\ Len(Entries) > 0
    /\ sessions[1].LastActivity < mtime

---------------------------------------------------------------------------
(* The 30-second rule and the turn_duration rule, for a running session    *)
(* whose most recent assistant entry, if any, has no tool_use item.        *)

\* the newest timestamp of the tail, ZeroTime when none is set
NewestStamp ==
    LET S == {Entries[i].Timestamp : i \in 1..Len(Entries)} \cup {ZeroTime}
    IN  CHOOSE t \in S : \A u \in S : u <= t

\* the newest timestamp of the tail is at most 5 minutes old
Fresh == ~IsZero(NewestStamp) /\ now - NewestStamp <= StaleAfter

\* the turn_duration entries located after the last assistant entry and
\* stamped no earlier than it
TurnsAtOrAfterLastAssistant ==
    LET la == LastIndexOfType(Entries, "assistant")
    IN  {i \in (la + 1)..Len(Entries) :
             /\ Entries[i].Type = "system" /\ Entries[i].Subtype = "turn_duration"
             /\ la # 0 /\ Entries[i].Timestamp >= Entries[la].Timestamp}

\* the most recent assistant entry exists and has no tool_use item
LastAssistantIsPlain ==
    LET la == LastIndexOfType(Entries, "assistant")
    IN  la # 0 /\ ~Carries(Entries[la], "tool_use")

(* C26: for a running session whose most recent assistant entry has no     *)
(* tool_use item and whose newest timestamp is at most 5 minutes old, a    *)
(* turn_duration entry at or after the last assistant entry, stamped at    *)
(* the same time or later, makes the status Waiting with task "-".         *)
C26_TurnDurationIsWaiting ==
    (Called /\ Running /\ LastAssistantIsPlain /\ Fresh
        /\ TurnsAtOrAfterLastAssistant # {})
    => verdict[1] = Result(StatusWaiting, Dash, FALSE)

(* C27: for a running session whose most recent assistant entry has no     *)
(* tool_use item, determineStatus returns Working only when that entry is  *)
(* less than 30 seconds old, no turn_duration entry is at or after it and  *)
(* the newest timestamp is not older than 5 minutes; in every other such   *)
(* case, no assistant entry at all included, it returns Waiting, "-".      *)
C27_WorkingOnlyWhenRecent ==
    LET la == LastIndexOfType(Entries, "assistant")
        recent == /\ la # 0
                  /\ SinceBelow(Entries[la].Timestamp, WorkingWindow, now)
                  /\ TurnsAtOrAfterLastAssistant = {}
                  /\ Fresh
    IN  (Called /\ Running /\ (la = 0 \/ LastAssistantIsPlain))
        => /\ verdict[1].status = StatusWorking => recent
           /\ ~recent => verdict[1] = Result(StatusWaiting, Dash, FALSE)

(* C29: every session a discovery pass returns for a project whose key is  *)
(* in the running-process map has ghostPid equal to the mapped pid,        *)
(* whatever its log holds.                                                 *)
C29_PidStoredForAllRunning ==
    (Listed /\ Running) => sessions[1].GhostPID = pid

(* C30: no session whose status is NeedsInput is returned by               *)
(* FindGhostProcesses, however long ago its last activity was.             *)
C30_NeedsInputNeverGhost ==
    pc = "ghosts" =>
        \A i \in 1..Len(sessions) :
            sessions[i].Status = StatusNeedsInput
                => \A g \in 1..Len(ghosts) : ghosts[g].PID # sessions[i].GhostPID

---------------------------------------------------------------------------
(* The task of a Working session.                                          *)

\* the text of the first text item of the last assistant entry that has
\* text, <<>> when the entry has none
FirstText ==
    LET la == LastIndexOfType(Entries, "assistant")
        c == Entries[la].Message[1].Content
        S == {k \in 1..Len(c) : c[k].Type = "text" /\ c[k].Text # EmptyString}
    IN  IF la = 0 \/ Entries[la].Message = <<>> \/ S = {} THEN <<>>
        ELSE <<c[CHOOSE k \in S : \A j \in S : k <= j].Text>>

\* text up to its first line break
FirstLineOf(text) ==
    LET S == {i \in 1..Len(text) : text[i] = Newline}
    IN  IF S = {} THEN text
        ELSE SubSeq(text, 1, (CHOOSE i \in S : \A j \in S : i <= j) - 1)

EndsWithEllipsis(text) ==
    Len(text) >= 3 /\ SubSeq(text, Len(text) - 2, Len(text)) = Ellipsis

\* determineStatus returned Working by the 30-second rule
WorkingByRecency ==
    /\ Called /\ verdict[1].status = StatusWorking
    /\ LastAssistantIsPlain

(* C28: whenever determineStatus returns Working by the 30-second rule the *)
(* task is the first line of the first text item of the last assistant     *)
(* entry: without a line break, at most 50 characters long, ending with    *)
(* the ellipsis exactly when that first line is longer than 50 characters  *)
(* (then its first 47 characters precede the ellipsis), and "-" when the   *)
(* entry has no text.                                                      *)
C28_TaskIsFirstLine ==
    WorkingByRecency =>
        LET task == verdict[1].task
        IN  IF FirstText = <<>> THEN task = Dash
            ELSE LET line == FirstLineOf(FirstText[1])
                 IN  /\ \A i \in 1..Len(task) : task[i] # Newline
                     /\ Len(task) <= 50
                     /\ EndsWithEllipsis(task) <=> Len(line) > 50
                     /\ task = IF Len(line) > 50 THEN SubSeq(line, 1, 47) \o Ellipsis
                               ELSE line

---------------------------------------------------------------------------
(* The session table.                                                      *)

Laid == ret # <<>> /\ ret[1].op = "calcSessionLayout"

Truncated == ret # <<>> /\ ret[1].op = "truncate"

(* C24: calcSessionLayout keeps the status, context and activity columns   *)
(* at 14, 16 and 15; for every width of at least 46 the visible columns    *)
(* sum exactly to the width; and when the remainder is too small for both  *)
(* flexible columns the message column is hidden and project takes         *)
(* max(1, width - 45).                                                     *)
C24_ColumnsSumToWidth ==
    Laid =>
        LET l == ret[1].out
            width == ret[1].width
            visible == l.status + l.project + l.context + l.activity
                           + (IF l.showMessage THEN l.message ELSE 0)
        IN  /\ l.status = 14 /\ l.context = 16 /\ l.activity = 15
            /\ width >= 46 => visible = width /\ l.totalWidth = width
            /\ width - 45 < 25
                   => /\ ~l.showMessage
                      /\ l.project = IF width - 45 > 1 THEN width - 45 ELSE 1
            /\ width - 45 >= 25 => l.showMessage /\ l.message >= 10 /\ l.project >= 15

\* a terminal wide enough that the message column is capped at its
\* preferred width and the overflow goes to the project column
C24_Witness ==
    /\ Laid /\ ret[1].out.showMessage
    /\ ret[1].out.message = prefMessageWidth
    /\ ret[1].out.project > prefProjectWidth

(* C25: truncate(s, max) never fails and returns at most max(0, max)       *)
(* characters: the empty string for every max <= 0, and s unchanged when   *)
(* s is no longer than max.                                                *)
C25_TruncateNeverFails ==
    Truncated =>
        /\ ret[1].out # <<>>
        /\ Len(ret[1].out[1]) <= (IF ret[1].max > 0 THEN ret[1].max ELSE 0)
        /\ ret[1].max <= 0 => ret[1].out[1] = EmptyString
        /\ Len(ret[1].s) <= ret[1].max => ret[1].out[1] = ret[1].s

---------------------------------------------------------------------------
(* The live view.                                                          *)

(* C23: in the live view the mode is always Live or History and starts at  *)
(* Live; key h or H makes it History, key l or L makes it Live, every      *)
(* other key except Ctrl+C leaves it unchanged, each timer tick draws a    *)
(* frame of the current mode without changing it, and Ctrl+C ends the      *)
(* loop.                                                                   *)
C23_ViewModeMachine ==
    /\ [](view.mode \in {ViewModeLive, ViewModeHistory})
    /\ [][(\E rawOk \in BOOLEAN : RunLiveView(rawOk)) => view'.mode = ViewModeLive]_vars
    /\ [][\A k \in Keys :
              LiveKey(k) =>
                  /\ k \in {Key_h, Key_H} => view'.mode = ViewModeHistory
                  /\ k \in {Key_l, Key_L} => view'.mode = ViewModeLive
                  /\ k \notin {Key_h, Key_H, Key_l, Key_L, CtrlC}
                         => view'.mode = view.mode
                  /\ k = CtrlC => view'.state = "ended"]_vars
    /\ [][LiveTick => /\ view'.mode = view.mode
                      /\ view'.last = Event("tick", 0, TRUE)
                      /\ view'.shown = <<view.mode>>]_vars

---------------------------------------------------------------------------
(* Staleness, totality and the ghost flag.                                 *)

\* the newest timestamp of the tail is more than 5 minutes old
Stale == ~IsZero(NewestStamp) /\ now - NewestStamp > StaleAfter

(* C35: a running session whose newest log timestamp is more than 5        *)
(* minutes old is never reported as Working, neither by determineStatus    *)
(* nor in the session a discovery pass lists.                              *)
C35_StaleIsNeverWorking ==
    /\ (Called /\ Running /\ Stale) => verdict[1].status # StatusWorking
    /\ (Listed /\ Running /\ Stale) => sessions[1].Status # StatusWorking

(* C36: determineStatus is total: for every entry sequence and running     *)
(* flag it returns a (status, task, ghost) triple and never crashes.       *)
C36_DetermineStatusIsTotal ==
    /\ Called => verdict[1] # Panic
    /\ pc # "crashed"

---------------------------------------------------------------------------
(* An over-long line in the log.                                           *)

\* the positions of the lines longer than the reader's buffer cap
OverLong(lines) == {i \in 1..Len(lines) : TooLong(lines[i], ReadLineCap)}

\* the file without its over-long lines
WithoutOverLong(lines) ==
    LET Fits(line) == ~TooLong(line, ReadLineCap)
    IN  SelectSeq(lines, Fits)

(* C37: a single line longer than the reader's buffer cap does not change  *)
(* which other entries are tailed: readLastEntries returns the last count  *)
(* well-formed entries of the other lines, those after the long line       *)
(* included, and reports no error.                                         *)
C37_LongLineIsSkipped ==
    (pc = "read" /\ Cardinality(OverLong(log)) = 1)
    => /\ ret[1].entries = LastN(WellFormed(WithoutOverLong(log)), ret[1].count)
       /\ ~ret[1].err

---------------------------------------------------------------------------
(* A log that cannot be read.                                              *)

\* the sessions of list that belong to project k
SessionsOf(list, k) == {list[i] : i \in {j \in 1..Len(list) : list[j].ProjectPath = k}}

\* the projects whose log file os.Stat finds and os.Open refuses in the pass
Unreadable == {k \in ProjectDirs : ret[1].access[k] = "noread"}

\* parseSession panics for project k, read on its own
PanicsAlone(k) == ret[1].access[k] = "ok" /\ parseProject(k, root[k], now) = <<>>

(* C34: a log file that can be stat'd but not read does not fail discovery *)
(* and does not drop the project: the pass ends as it does for the other   *)
(* projects alone, the project is listed once with status Inactive,        *)
(* lastActivity = the file's modification time and no context usage, and   *)
(* every other project has the session it has when read on its own.        *)
C34_UnreadableLogGivesDefaults ==
    (ret # <<>> /\ ret[1].op = "Discover" /\ ~ret[1].rootErr /\ Unreadable # {})
    => /\ pc \in {"listed", "crashed"}
       /\ pc = "crashed" <=> \E j \in ProjectDirs \ Unreadable : PanicsAlone(j)
       /\ pc = "listed" =>
              /\ \A k \in Unreadable :
                     /\ Cardinality(SessionsOf(sessions, k)) = 1
                     /\ \A s \in SessionsOf(sessions, k) :
                            /\ s.Status = StatusInactive
                            /\ s.LastActivity = root[k].mtime
                            /\ s.ContextTokens = 0
                            /\ s.ContextPercent = Percent(0)
                            /\ ~s.IsGhost
              /\ \A j \in ProjectDirs \ Unreadable :
                     ret[1].access[j] = "ok"
                         => SessionsOf(sessions, j)
                                = {parseProject(j, root[j], now)[1]}

\* a pass listed a running project whose log holds entries and cannot be
\* read, next to a project read as usual
C34_Witness ==
    /\ pc = "listed" /\ ret[1].op = "Discover" /\ Len(sessions) = 2
    /\ \E k \in Unreadable : root[k].pid # 0 /\ Len(root[k].log) > 0
    /\ \E j \in ProjectDirs : ret[1].access[j] = "ok" /\ Len(root[j].log) > 0

---------------------------------------------------------------------------
(* The terminal of the live view.                                          *)

\* runLiveView got past SetupRawInput
SetUp == view.last.ev # "none"

(* C33: once raw input mode has been set up, every way out of the live     *)
(* view loop closes done, restores the terminal's input state and shows    *)
(* the cursor again; while the loop runs the terminal is raw, the cursor   *)
(* hidden and the key reader alive.                                        *)
C33_TerminalRestoredOnExit ==
    /\ view.state = "loop" => SetUp /\ view.raw /\ view.cursorHidden /\ ~view.done
    /\ (view.state \in {"ended", "crashed"} /\ SetUp)
           => view.done /\ ~view.raw /\ ~view.cursorHidden

\* the loop was left by Ctrl+C after it had switched to the history view
C33_Witness ==
    /\ view.state = "ended" /\ SetUp
    /\ view.last = Event("key", CtrlC, FALSE)
    /\ view.mode = ViewModeHistory
    /\ view.done /\ ~view.raw /\ ~view.cursorHidden

\* the pids of a list of ghosts or of signals
PidsOf(list) == {list[i].PID : i \in 1..Len(list)}

PairwiseDistinctPids(list) ==
    \A i, j \in 1..Len(list) : i # j => list[i].PID # list[j].PID

KillRan == pc = "killed" /\ ret # <<>> /\ ret[1].op = "handleKillGhosts"

\* C38: the kill-ghosts command signals only what it announced: every
\* process KillGhostProcesses signalled is in the ghost list handleKillGhosts
\* printed before, whatever was appended to the logs and whichever processes
\* started or exited between the two discoveries.
C38_OnlyAnnouncedAreSignalled ==
    KillRan => PidsOf(signals) \subseteq PidsOf(ret[1].announced)

\* C39: within one KillGhostProcesses call no pid is signalled more than
\* once: the sessions of the pass have pairwise distinct project keys, the
\* ghost list has pairwise distinct pids, and so have the signals sent.
C39_NoPidSignalledTwice ==
    KillRan =>
        /\ \A i, j \in 1..Len(sessions) :
               i # j => sessions[i].ProjectPath # sessions[j].ProjectPath
        /\ PairwiseDistinctPids(ghosts)
        /\ PairwiseDistinctPids(signals)

\* two ghosts were signalled in one call, one of them gone already, while
\* two processes ran in the project of the other
C39_Witness ==
    /\ KillRan
    /\ Len(signals) = 2
    /\ \E i \in 1..2 : ~signals[i].ok

---------------------------------------------------------------------------
(* The polling loop.                                                       *)

\* the ticks of the scans the callback is due for: the initial scan, and
\* every tick whose discovery succeeded
Due(scans) ==
    LET due == SelectSeq(scans, LAMBDA s : s.tick = 0 \/ s.ok)
    IN  [i \in 1..Len(due) |-> due[i].tick]

Increasing(ticks) == \A i, j \in 1..Len(ticks) : i < j => ticks[i] < ticks[j]

\* the callback has been invoked for the initial scan, first and once, and
\* otherwise for exactly the ticks whose discovery succeeded, in tick order
CalledAsDue(w) ==
    /\ w.calls # <<>>
    /\ w.calls[1] = 0
    /\ w.scans[1].tick = 0
    /\ w.calls = Due(w.scans)
    /\ Increasing(w.calls)

\* the lists handed to the callback: nothing after a failed initial
\* discovery, the tick's own discovery after a successful one, and no
\* invocation for a tick whose discovery failed
ListsAsDiscovered ==
    /\ \A interval \in Intervals : \A rootErr \in BOOLEAN :
           Watch(interval, rootErr) /\ ret'[1].at = "select" =>
               sessions' \in IF rootErr THEN {<<>>}
                             ELSE SortSlice(DiscoverFrom(root, AllOk, now, 1, <<>>).list)
    /\ \A rootErr \in BOOLEAN :
           WatchTick(rootErr) /\ ret'[1].at = "select" =>
               IF rootErr
               THEN sessions' = sessions /\ ret'[1].calls = ret[1].calls
               ELSE /\ sessions' \in SortSlice(DiscoverFrom(root, AllOk, now, 1, <<>>).list)
                    /\ ret'[1].calls = Append(ret[1].calls, ret[1].tickC[1])

\* C31: Watch invokes the callback exactly once for the initial scan, before
\* any tick and also when that discovery failed (with its empty result),
\* then once per tick whose discovery succeeded, with that tick's list, and
\* not at all for a tick whose discovery failed; the invocations are in
\* tick order.
C31_CallbackOncePerGoodScan ==
    /\ [](ret[1].at # "off" => CalledAsDue(ret[1]))
    /\ [][ListsAsDiscovered]_vars

\* C32: Watch runs until the context is cancelled: once called it is in its
\* loop while the context is live, it returns only the error of the
\* cancelled context, after returning it invokes the callback no more, and
\* once the context is cancelled the loop returns in the end.
C32_RunsUntilCancelled ==
    /\ [](ret[1].at # "off" /\ ~ret[1].cancelled => ret[1].at = "select")
    /\ [](ret[1].at = "returned" => ret[1].cancelled /\ ret[1].err = Canceled)
    /\ [][ret[1].at = "returned" =>
              ret'[1].at = "returned" /\ ret'[1].calls = ret[1].calls
                                      /\ sessions' = sessions]_vars
    /\ (ret[1].at = "select" /\ ret[1].cancelled) ~> (ret[1].at = "returned")

====
